---- MODULE Spec2Model ----
(***************************************************************************)
(* A model of the flux broadcast proxy: the script registry and its        *)
(* hot reload (script-loader.js), the transformation engine                *)
(* (transformation-engine.js), the distributor (distributor.js), the       *)
(* response selector (response-selector.js) and the proxy route handler    *)
(* (proxy-worker.js).                                                      *)
(*                                                                         *)
(* JavaScript Maps and plain objects are modelled as sequences of          *)
(* [k, v] records in insertion order.  An `await` is a point where other   *)
(* callbacks may run, so every handler is cut into one action per          *)
(* stretch of code between two awaits.                                     *)
(***************************************************************************)
EXTENDS Integers, Sequences, FiniteSets, TLC

\* ------------------------------------------------------------ bounds
\* Store mutations (create / update / delete of a script row) in one run.
MaxMutations == 3
\* Largest value of the millisecond clock (Date.now() - startTime).
MaxClock == 2
\* Transform calls in one run that do not simply return (throw, or never settle).
MaxFaults == 1

\* ------------------------------------------------------ generic helpers
Range(s) == {s[i] : i \in 1..Len(s)}

\* ----------------------------------------------- Map (insertion ordered)
MapKeys(m) == [i \in 1..Len(m) |-> m[i].k]
MapHas(m, key) == \E i \in 1..Len(m) : m[i].k = key
MapIndex(m, key) == CHOOSE i \in 1..Len(m) : m[i].k = key
\* Map.get: the value, or the given default (undefined) when absent.
MapGet(m, key, undef) == IF MapHas(m, key) THEN m[MapIndex(m, key)].v ELSE undef
\* Map.set: an existing key keeps its position, a new key goes last.
MapSet(m, key, val) ==
    IF MapHas(m, key)
    THEN [m EXCEPT ![MapIndex(m, key)] = [k |-> key, v |-> val]]
    ELSE Append(m, [k |-> key, v |-> val])
\* Map.delete
MapDelete(m, key) ==
    IF MapHas(m, key)
    THEN LET j == MapIndex(m, key)
         IN  [i \in 1..(Len(m) - 1) |-> IF i < j THEN m[i] ELSE m[i + 1]]
    ELSE m

\* ----------------------------------------------------- the backing store
\* Script names, in the order of SELECT ... ORDER BY name ASC.
NameOrder == <<"s1", "s2">>
Names == Range(NameOrder)

Undefined == "undefined"

\* Script sources.  "A", "B" and "H" evaluate in the VM; "bad" makes vm.run
\* throw (a syntax error, an exception at top level, or a run past the VM
\* timeout).
Compiles(content) == content # "bad"
\* The transform functions the evaluated module exports.
Exports(content) ==
    CASE content = "A" -> {"transformHeaders", "transformParams", "transformBody"}
      [] content = "B" -> {"transformHeaders", "transformBody"}
      [] content = "H" -> {"transformHeaders"}
      [] OTHER -> {}

\* Request paths and path patterns; RegexTest is new RegExp(p).test(path).
Paths == {"/track/x", "/other"}
InvalidPattern == "("
RegexTest(pattern, path) ==
    CASE pattern = "^/track/" -> path = "/track/x"
      [] pattern = "other$" -> path = "/other"
      [] OTHER -> FALSE

\* responseConfig as database.js getScript returns it.  In a mockResponse, status 0 and Undefined stand for a
\* field that is missing or falsy (0, '', null), which `||` treats alike.
NoMock == [configured |-> FALSE, status |-> 0, statusText |-> Undefined, headers |-> Undefined,
           body |-> Undefined]
NoPolicy == [strategy |-> "all", targetId |-> Undefined, mockResponse |-> NoMock,
             enabled |-> FALSE]
PolicyFirst == [strategy |-> "first", targetId |-> Undefined, mockResponse |-> NoMock,
                enabled |-> TRUE]

\* The rows a mutation can write for a script (without the name).
RowKinds ==
    { [content |-> "A", tags |-> <<>>, pathPattern |-> "", responseConfig |-> NoPolicy],
      [content |-> "B", tags |-> <<"x">>, pathPattern |-> "^/track/",
       responseConfig |-> PolicyFirst],
      [content |-> "bad", tags |-> <<>>, pathPattern |-> "", responseConfig |-> NoPolicy] }

NoRow == [content |-> Undefined]
StoreRows == RowKinds \cup {NoRow}

VARIABLES
    store,           \* the scripts table: name -> the data last written for it, or NoRow
    nmut,            \* store mutations so far
    scripts,         \* ScriptLoader.scripts: Map name -> evaluated module
    scriptMetadata,  \* ScriptLoader.scriptMetadata: Map name -> metadata
    loads,           \* the running loadAllScripts() calls, per caller
    freshDone,       \* loads completed that started after the last mutation (0, 1, 2 = more)
    distributor,     \* proxy-worker's distributor: whether set, and its this.targets
    faultsLeft,      \* transform calls that may still throw or hang
    req              \* the inbound requests: request id -> handler state

regVars == <<store, nmut, scripts, scriptMetadata, loads, freshDone>>
proxyVars == <<distributor, faultsLeft, req>>
vars == <<store, nmut, scripts, scriptMetadata, loads, freshDone, distributor, faultsLeft, req>>

\* db.getAllScripts(): the rows, ordered by name.
RECURSIVE RowsFrom(_, _)
RowsFrom(st, order) ==
    IF order = <<>> THEN <<>>
    ELSE (IF st[Head(order)] # NoRow
          THEN <<[name |-> Head(order), row |-> st[Head(order)]]>>
          ELSE <<>>) \o RowsFrom(st, Tail(order))
dbGetAllScripts(st) == RowsFrom(st, NameOrder)

\* A property of an object, undefined when the object has none of the name.
Prop(obj, key) == IF key \in DOMAIN obj THEN obj[key] ELSE Undefined

\* What the table keeps of the responseConfig given to createScript or
\* updateScript and getScript reads back: the columns response_strategy,
\* response_target_id, response_mock and response_enabled.  Nothing else of the
\* object is written.
Columns(responseConfig) ==
    [strategy |-> IF Prop(responseConfig, "strategy") = Undefined THEN "all"
                  ELSE responseConfig.strategy,
     targetId |-> Prop(responseConfig, "targetId"),
     mockResponse |-> responseConfig.mockResponse,
     enabled |-> Prop(responseConfig, "enabled") = TRUE]

\* db.getScript(name): the row as its columns give it.
dbGetScript(st, name) ==
    IF st[name] = NoRow THEN NoRow
    ELSE [st[name] EXCEPT !.responseConfig = Columns(@)]

\* -------------------------------------------------------- script loader
Registry(s, m) == [scripts |-> s, scriptMetadata |-> m]
EmptyRegistry == Registry(<<>>, <<>>)

\* A variant of loadScript that appends the row's tags to the tags already held
\* instead of replacing them.
loadScriptMergingTags(reg, data) ==
    IF Compiles(data.row.content)
    THEN LET old == MapGet(reg.scriptMetadata, data.name, [tags |-> <<>>])
         IN Registry(MapSet(reg.scripts, data.name, data.row.content),
                     MapSet(reg.scriptMetadata, data.name,
                            [tags |-> IF Len(old.tags) < 3 THEN old.tags \o data.row.tags
                                      ELSE old.tags,
                             pathPattern |-> data.row.pathPattern]))
    ELSE reg

\* loadScript(scriptData): evaluate the source; on success set module and
\* metadata, on failure (the catch) leave both maps as they are.
loadScript(reg, data) ==
    IF Compiles(data.row.content)
    THEN Registry(MapSet(reg.scripts, data.name, data.row.content),
                  MapSet(reg.scriptMetadata, data.name,
                         [tags |-> data.row.tags, pathPattern |-> data.row.pathPattern]))
    ELSE reg

RECURSIVE EvictLoop(_, _, _)
\* The removal loop of loadAllScripts: for each key of this.scripts that is no
\* row's name, delete it from both maps.
EvictLoop(reg, keys, current) ==
    IF keys = <<>> THEN reg
    ELSE EvictLoop(IF Head(keys) \in current THEN reg
                   ELSE Registry(MapDelete(reg.scripts, Head(keys)),
                                 MapDelete(reg.scriptMetadata, Head(keys))),
                   Tail(keys), current)

\* A variant of the removal loop that removes nothing.
EvictNothing(reg, rows) == reg

Evict(reg, rows) ==
    EvictLoop(reg, MapKeys(reg.scripts), {rows[i].name : i \in 1..Len(rows)})

RECURSIVE LoadLoop(_, _)
LoadLoop(reg, rows) ==
    IF rows = <<>> THEN reg ELSE LoadLoop(loadScript(reg, Head(rows)), Tail(rows))

\* One whole loadAllScripts() with nothing running in between.
loadAllScripts(reg, st) == LoadLoop(Evict(reg, dbGetAllScripts(st)), dbGetAllScripts(st))

\* The callers of loadAllScripts: the 5 s polling timer and an API handler.
Loaders == {"poll", "api"}
Idle == [pc |-> "idle", rows |-> <<>>, i |-> 0, fresh |-> FALSE]

Bump(n) == IF n < 2 THEN n + 1 ELSE n

\* No loadAllScripts() call of this thread is between two of its awaits.
Quiet == \A l \in Loaders : loads[l].pc = "idle"

\* A variant in which a caller starts its loadAllScripts() while the call of
\* another caller is between two of its awaits.
StartLoadOverlapping(l, st, mutated) ==
    LET rows == dbGetAllScripts(st)
        reg0 == Evict(Registry(scripts, scriptMetadata), rows)
        reg1 == IF rows = <<>> THEN reg0 ELSE loadScript(reg0, rows[1])
    IN  /\ loads[l].pc = "idle"
        /\ scripts' = reg1.scripts
        /\ scriptMetadata' = reg1.scriptMetadata
        /\ IF rows = <<>>
           THEN /\ freshDone' = Bump(IF mutated THEN 0 ELSE freshDone)
                /\ loads' = [k \in Loaders |->
                               IF mutated THEN [loads[k] EXCEPT !.fresh = FALSE] ELSE loads[k]]
           ELSE /\ freshDone' = (IF mutated THEN 0 ELSE freshDone)
                /\ loads' = [k \in Loaders |->
                               IF k = l THEN [pc |-> "loading", rows |-> rows, i |-> 2,
                                              fresh |-> TRUE]
                               ELSE IF mutated THEN [loads[k] EXCEPT !.fresh = FALSE]
                               ELSE loads[k]]

\* loadAllScripts() from its call to its first await: read the rows, run the
\* removal loop, and run loadScript on the first row.  With no rows the call
\* completes at once.  Each await of the loop is on a promise loadScript has
\* already resolved (vm.run is synchronous), so the rest of a call runs as
\* microtasks before the event loop takes the next timer or request callback:
\* a call starts only when none is under way.
StartLoad(l, st, mutated) ==
    LET rows == dbGetAllScripts(st)
        reg0 == Evict(Registry(scripts, scriptMetadata), rows)
        reg1 == IF rows = <<>> THEN reg0 ELSE loadScript(reg0, rows[1])
    IN  /\ Quiet
        /\ scripts' = reg1.scripts
        /\ scriptMetadata' = reg1.scriptMetadata
        /\ IF rows = <<>>
           THEN /\ freshDone' = Bump(IF mutated THEN 0 ELSE freshDone)
                /\ loads' = [k \in Loaders |->
                               IF mutated THEN [loads[k] EXCEPT !.fresh = FALSE] ELSE loads[k]]
           ELSE /\ freshDone' = (IF mutated THEN 0 ELSE freshDone)
                /\ loads' = [k \in Loaders |->
                               IF k = l THEN [pc |-> "loading", rows |-> rows, i |-> 2,
                                              fresh |-> TRUE]
                               ELSE IF mutated THEN [loads[k] EXCEPT !.fresh = FALSE]
                               ELSE loads[k]]

\* The polling timer fires (startPolling's setInterval callback).
PollTick ==
    /\ StartLoad("poll", store, FALSE)
    /\ UNCHANGED <<store, nmut, proxyVars>>

\* The continuation of loadAllScripts after an await: loadScript on the next
\* row, or the end of the loop.
LoadStep(l) ==
    /\ loads[l].pc = "loading"
    /\ IF loads[l].i <= Len(loads[l].rows)
       THEN LET reg == loadScript(Registry(scripts, scriptMetadata), loads[l].rows[loads[l].i])
            IN  /\ scripts' = reg.scripts
                /\ scriptMetadata' = reg.scriptMetadata
                /\ loads' = [loads EXCEPT ![l].i = @ + 1]
                /\ UNCHANGED freshDone
       ELSE /\ loads' = [loads EXCEPT ![l] = Idle]
            /\ freshDone' = (IF loads[l].fresh THEN Bump(freshDone) ELSE freshDone)
            /\ UNCHANGED <<scripts, scriptMetadata>>
    /\ UNCHANGED <<store, nmut, proxyVars>>

\* POST /api/scripts, PUT /api/scripts/:name(/metadata), /api/import: write the
\* row, then call loadAllScripts().
ApiPutScript(name, kind) ==
    /\ nmut < MaxMutations
    /\ store[name] # kind
    /\ nmut' = nmut + 1
    /\ store' = [store EXCEPT ![name] = kind]
    /\ StartLoad("api", store', TRUE)
    /\ UNCHANGED proxyVars

\* DELETE /api/scripts/:name: 404 without the row; else delete it and call
\* loadAllScripts().
ApiDeleteScript(name) ==
    /\ nmut < MaxMutations
    /\ store[name] # NoRow
    /\ nmut' = nmut + 1
    /\ store' = [store EXCEPT ![name] = NoRow]
    /\ StartLoad("api", store', TRUE)
    /\ UNCHANGED proxyVars

\* A write to the scripts table by the other process (the management server
\* writes, the proxy worker's loader only polls).
DbWrite(name, kind) ==
    /\ nmut < MaxMutations
    /\ store[name] # kind
    /\ nmut' = nmut + 1
    /\ store' = [store EXCEPT ![name] = kind]
    /\ freshDone' = 0
    /\ loads' = [k \in Loaders |-> [loads[k] EXCEPT !.fresh = FALSE]]
    /\ UNCHANGED <<scripts, scriptMetadata, proxyVars>>

\* ------------------------------------------------- script loader lookups
\* getScript(name): this.scripts.get(name)
getScript(reg, name) == MapGet(reg.scripts, name, Undefined)

\* getAllScripts(): the keys of this.scripts, in Map order.
getAllScripts(reg) == MapKeys(reg.scripts)

NoMetadata == [tags |-> <<>>, pathPattern |-> ""]
\* getScriptMetadata(name): this.scriptMetadata.get(name) || {}
getScriptMetadata(reg, name) == MapGet(reg.scriptMetadata, name, NoMetadata)

RECURSIVE TagLoopIntersecting(_, _, _)
\* A variant of the loop of getScriptsForTags that lists a script only when one
\* of its tags is a tag of the target.
TagLoopIntersecting(reg, keys, targetTags) ==
    IF keys = <<>> THEN <<>>
    ELSE (IF Range(getScriptMetadata(reg, Head(keys)).tags) \cap Range(targetTags) # {}
          THEN <<Head(keys)>> ELSE <<>>) \o TagLoopIntersecting(reg, Tail(keys), targetTags)

RECURSIVE TagLoop(_, _, _)
\* The loop of getScriptsForTags over this.scripts.keys().
TagLoop(reg, keys, targetTags) ==
    IF keys = <<>> THEN <<>>
    ELSE LET metadata == getScriptMetadata(reg, Head(keys))
             hit == \/ metadata.tags = <<>>
                    \/ Range(metadata.tags) \cap Range(targetTags) # {}
         IN  (IF hit THEN <<Head(keys)>> ELSE <<>>) \o TagLoop(reg, Tail(keys), targetTags)

\* getScriptsForTags(targetTags)
getScriptsForTags(reg, targetTags) ==
    IF targetTags = <<>> THEN getAllScripts(reg)
    ELSE TagLoop(reg, MapKeys(reg.scripts), targetTags)

\* Whether a script with this pathPattern applies to the path: an empty pattern
\* applies to every path, any other by RegExp.test.
PathMatches(pattern, path) ==
    \/ pattern = ""
    \/ pattern # InvalidPattern /\ RegexTest(pattern, path)

RECURSIVE PathLoop(_, _, _)
PathLoop(reg, keys, path) ==
    IF keys = <<>> THEN <<>>
    ELSE (IF PathMatches(getScriptMetadata(reg, Head(keys)).pathPattern, path)
          THEN <<Head(keys)>> ELSE <<>>) \o PathLoop(reg, Tail(keys), path)

\* getScriptsForPath(path): the loaded scripts whose pathPattern is empty or
\* matches the path, in registry order.
getScriptsForPath(reg, path) == PathLoop(reg, MapKeys(reg.scripts), path)

\* ------------------------------------------------------------- targets
T1 == [id |-> "t1", nickname |-> "alpha", hostname |-> "a.example", tags |-> <<>>,
       metadata |-> "m1"]
T2 == [id |-> "t2", nickname |-> "beta", hostname |-> "b.example", tags |-> <<"x">>,
       metadata |-> "m2"]
\* A second target created with the nickname of the first.
T3 == [id |-> "t3", nickname |-> "alpha", hostname |-> "c.example", tags |-> <<"y">>,
       metadata |-> "m3"]

\* Targets whose nicknames are written like integers.
T4 == [id |-> "t4", nickname |-> "7", hostname |-> "d.example", tags |-> <<>>,
       metadata |-> "m4"]
T5 == [id |-> "t5", nickname |-> "10", hostname |-> "e.example", tags |-> <<>>,
       metadata |-> "m5"]

\* db.getAllTargets() results the run starts from.
TargetLists == { <<>>, <<T1>>, <<T2, T1>>, <<T3, T1>> }

\* The key of a target in timestamps and in the aggregate:
\* target.nickname || new URL(target.baseUrl).hostname
Key(target) == IF target.nickname # "" THEN target.nickname ELSE target.hostname

\* --------------------------------------------------- transformation engine
Fns == <<"transformHeaders", "transformParams", "transformBody">>
\* What a call of a script's transform function does: return a new value,
\* throw, change its argument in place and then throw, or never settle.
Outcomes == {"return", "throw", "mutateThrow", "hang"}
\* The same, and a call that returns a value a JSON round trip does not give
\* back as it was (one holding a Date, NaN, or a property set to undefined).
RichOutcomes == Outcomes \cup {"returnRich"}
\* The same, and a transformHeaders call that returns the headers with the keys
\* 'Connection', 'Content-Encoding' (to 'gzip') and 'CONTENT-LENGTH' set, in
\* that spelling.
CasedOutcomes == Outcomes \cup {"returnCased"}
AllReturn == <<"return", "return", "return">>
Faulty(outs) == Cardinality({i \in 1..3 : outs[i] # "return"})

\* A field of the request (headers, params, body): the inbound value and the
\* changes scripts made to it, oldest first.
Field(base) == [base |-> base, marks |-> <<>>]
Null == "null"

\* safeExecute(fn, data, fnName, metadata): await fn(data, metadata); the catch
\* returns data, the object the function was given.
safeExecute(data, name, out) ==
    CASE out = "return" ->
            [state |-> "ok", data |-> [data EXCEPT !.marks = Append(@, <<name, "ret">>)]]
      [] out = "returnRich" ->
            [state |-> "ok", data |-> [data EXCEPT !.marks = Append(@, <<name, "rich">>)]]
      [] out = "returnCased" ->
            [state |-> "ok", data |-> [data EXCEPT !.marks = Append(@, <<name, "cased">>)]]
      [] out = "throw" -> [state |-> "ok", data |-> data]
      [] out = "mutateThrow" ->
            [state |-> "ok",
             data |-> IF data.base \in {Undefined, Null} /\ data.marks = <<>> THEN data
                      ELSE [data EXCEPT !.marks = Append(@, <<name, "mut">>)]]
      [] OTHER -> [state |-> "hung", data |-> data]

\* Whether headers['content-type'] includes 'application/json'; scripts are
\* taken to leave that header as it came in.
IsJson(headers) == headers.base \in {"hj", "hjz"}

\* A variant of the copy that hands the body over as it is.
SameObject(body) == body

\* JSON.parse(JSON.stringify(body)): what JSON cannot represent comes back
\* changed (a Date as a string, NaN as null) or not at all (undefined).
JsonCopy(body) ==
    [body EXCEPT !.marks = [k \in 1..Len(body.marks) |->
                               IF body.marks[k][2] = "rich" THEN <<body.marks[k][1], "json">>
                               ELSE body.marks[k]]]

\* The result object transform starts from: spread copies of the headers and
\* the params, and for a JSON request a JSON round trip of the body, which
\* throws on undefined.
ResultOf(request) ==
    [headers |-> request.headers,
     params |-> request.params,
     body |-> IF IsJson(request.headers) THEN JsonCopy(request.body) ELSE request.body]
CopyThrows(request) ==
    IsJson(request.headers) /\ request.body.base = Undefined /\ request.body.marks = <<>>

\* transform(request, scriptName, targetMetadata): outs[i] is what the call of
\* Fns[i] does, when it is made.  state is "ok" (returned), "threw" or "hung"
\* (awaiting a call that never settles); called lists the functions called and
\* given is what they were called with.
transform(reg, request, scriptName, outs) ==
    LET script == getScript(reg, scriptName)
        result == ResultOf(request)
        h == IF "transformHeaders" \in Exports(script)
             THEN safeExecute(result.headers, scriptName, outs[1])
             ELSE [state |-> "skip", data |-> result.headers]
        p == IF h.state \in {"ok", "skip"} /\ "transformParams" \in Exports(script)
             THEN safeExecute(result.params, scriptName, outs[2])
             ELSE [state |-> IF h.state \in {"ok", "skip"} THEN "skip" ELSE "stop",
                   data |-> result.params]
        b == IF /\ p.state \in {"ok", "skip"}
                /\ "transformBody" \in Exports(script)
                /\ ~(result.body.base = Null /\ result.body.marks = <<>>)
             THEN safeExecute(result.body, scriptName, outs[3])
             ELSE [state |-> IF p.state \in {"ok", "skip"} THEN "skip" ELSE "stop",
                   data |-> result.body]
        states == <<h.state, p.state, b.state>>
    IN  IF CopyThrows(request)
        THEN [state |-> "threw", called |-> {}, given |-> request, request |-> request]
        ELSE IF script = Undefined
        THEN [state |-> "ok", called |-> {}, given |-> result, request |-> result]
        ELSE [state |-> IF \E i \in 1..3 : states[i] = "hung" THEN "hung" ELSE "ok",
              called |-> {i \in 1..3 : states[i] \in {"ok", "hung"}},
              given |-> result,
              request |-> [headers |-> h.data, params |-> p.data, body |-> b.data]]

\* ------------------------------------------------------ response selector
NoResult == [selectedTarget |-> Undefined, strategy |-> Undefined, status |-> 0,
             statusText |-> Undefined, headers |-> Undefined, body |-> Undefined,
             error |-> Undefined, targetId |-> Undefined]

\* { ...a, ...b }: the fields b holds override those of a.
Spread(a, b) ==
    [f \in DOMAIN a |->
        IF f = "status" THEN b.status
        ELSE IF b[f] # Undefined THEN b[f] ELSE a[f]]

\* The integer a property key denotes when it is written as an array index
\* ("7", "10"), or -1.
ArrayIndex(key) ==
    CASE key = "7" -> 7
      [] key = "10" -> 10
      [] OTHER -> -1

\* Object.entries(results): the keys that are array indices first, in ascending
\* numeric order, then the other string keys in insertion order.
ObjectEntries(obj) ==
    SortSeq(SelectSeq(obj, LAMBDA en : ArrayIndex(en.k) >= 0),
            LAMBDA a, b : ArrayIndex(a.k) < ArrayIndex(b.k))
       \o SelectSeq(obj, LAMBDA en : ArrayIndex(en.k) < 0)

Success(response) == response.status >= 200 /\ response.status < 300

\* selectFirstAvailable(results)
selectFirstAvailable(results) ==
    LET entries == ObjectEntries(results)
    IN  IF entries = <<>>
        THEN [NoResult EXCEPT !.status = 503, !.statusText = "Service Unavailable",
                              !.body = "No responses available"]
        ELSE Spread([NoResult EXCEPT !.selectedTarget = entries[1].k,
                                     !.strategy = "fallback"],
                    entries[1].v)

\* A variant of selectSpecificTarget that passes over a target that failed.
selectSpecificSucceeded(results, config) ==
    LET entries == ObjectEntries(results)
        found == {i \in 1..Len(entries) : /\ entries[i].v.targetId = config.selectedTargetId
                                          /\ Success(entries[i].v)}
    IN  IF found # {}
        THEN Spread([NoResult EXCEPT !.selectedTarget = entries[CHOOSE j \in found : TRUE].k,
                                     !.strategy = "specific"],
                    entries[CHOOSE j \in found : TRUE].v)
        ELSE selectFirstAvailable(results)

\* selectSpecificTarget(results, config)
selectSpecificTarget(results, config) ==
    LET entries == ObjectEntries(results)
        found == {i \in 1..Len(entries) : entries[i].v.targetId = config.selectedTargetId}
    IN  IF config.selectedTargetId = Undefined THEN selectFirstAvailable(results)
        ELSE IF found # {}
        THEN LET i == CHOOSE j \in found : \A k \in found : j <= k
             IN  Spread([NoResult EXCEPT !.selectedTarget = entries[i].k,
                                         !.strategy = "specific"],
                        entries[i].v)
        ELSE selectFirstAvailable(results)

Infinity == MaxClock + 1000
\* timestamps[key] || Infinity
TimeOf(timestamps, key) ==
    IF MapHas(timestamps, key) /\ MapGet(timestamps, key, 0) # 0
    THEN MapGet(timestamps, key, 0) ELSE Infinity

\* selectFirstResponse(results, metadata): the stable sort by time puts first
\* the earliest successful entry, in entry order among equals.
selectFirstResponse(results, timestamps) ==
    LET entries == ObjectEntries(results)
        ok == {i \in 1..Len(entries) : Success(entries[i].v)}
    IN  IF ok = {} THEN selectFirstAvailable(results)
        ELSE LET best == CHOOSE i \in ok :
                            \A j \in ok :
                               \/ TimeOf(timestamps, entries[i].k) < TimeOf(timestamps, entries[j].k)
                               \/ /\ TimeOf(timestamps, entries[i].k) = TimeOf(timestamps, entries[j].k)
                                  /\ i <= j
             IN  Spread([NoResult EXCEPT !.selectedTarget = entries[best].k,
                                         !.strategy = "first"],
                        entries[best].v)

\* The mock object: status || 200, statusText || 'OK', headers || {}, body || {}.
MockOf(config) ==
    [NoResult EXCEPT !.strategy = "mock",
                     !.status = IF config.mockResponse.status # 0
                                THEN config.mockResponse.status ELSE 200,
                     !.statusText = IF config.mockResponse.statusText # Undefined
                                    THEN config.mockResponse.statusText ELSE "OK",
                     !.headers = IF config.mockResponse.headers # Undefined
                                 THEN config.mockResponse.headers ELSE "{}",
                     !.body = IF config.mockResponse.body # Undefined
                              THEN config.mockResponse.body ELSE "{}"]

\* A variant of selectMockResponse that returns the mock only when a target
\* answered 2xx, whatever mockForce is.
selectMockUnforced(config, results) ==
    LET entries == ObjectEntries(results)
    IN  IF \E i \in 1..Len(entries) : Success(entries[i].v) THEN MockOf(config)
        ELSE IF entries # <<>>
        THEN Spread([NoResult EXCEPT !.selectedTarget = entries[Len(entries)].k,
                                     !.strategy = "mock-fallback"],
                    entries[Len(entries)].v)
        ELSE MockOf(config)

\* A variant of selectMockResponse that, with the force off and no 2xx entry,
\* hands over to selectFirstAvailable.
selectMockOrFirstAvailable(config, results) ==
    LET entries == ObjectEntries(results)
    IN  IF ~config.mockResponse.configured
        THEN [NoResult EXCEPT !.strategy = "mock", !.status = 200, !.statusText = "OK",
                              !.body = "Mock response (not configured)"]
        ELSE IF config.mockForce # "false" THEN MockOf(config)
        ELSE IF \E i \in 1..Len(entries) : Success(entries[i].v) THEN MockOf(config)
        ELSE selectFirstAvailable(results)

\* selectMockResponse(config, results)
selectMockResponse(config, results) ==
    LET entries == ObjectEntries(results)
    IN  IF ~config.mockResponse.configured
        THEN [NoResult EXCEPT !.strategy = "mock", !.status = 200, !.statusText = "OK",
                              !.body = "Mock response (not configured)"]
        ELSE IF config.mockForce # "false" THEN MockOf(config)
        ELSE IF \E i \in 1..Len(entries) : Success(entries[i].v) THEN MockOf(config)
        ELSE IF entries # <<>>
        THEN Spread([NoResult EXCEPT !.selectedTarget = entries[Len(entries)].k,
                                     !.strategy = "mock-fallback"],
                    entries[Len(entries)].v)
        ELSE [NoResult EXCEPT !.strategy = "mock", !.status = 503,
                              !.statusText = "Service Unavailable",
                              !.body = "No target responses available"]

\* No script enabled a response policy (activeResponseConfig = null).
NoActiveConfig == [strategy |-> Undefined, selectedTargetId |-> Undefined,
                   mockResponse |-> NoMock, mockForce |-> Undefined, enabled |-> FALSE]

\* A variant of selectResponse whose switch has no default arm: a strategy it
\* does not name leaves selectedResponse undefined.
selectResponseNoDefault(results, config, timestamps) ==
    IF ~config.enabled
    THEN LET defaultResponse == selectFirstAvailable(results)
         IN  [response |-> Spread([NoResult EXCEPT
                                      !.selectedTarget = defaultResponse.selectedTarget,
                                      !.strategy = "default"],
                                  defaultResponse),
              targets |-> results]
    ELSE [response |-> CASE config.strategy = "specific" -> selectSpecificTarget(results, config)
                         [] config.strategy = "mock" -> selectMockResponse(config, results)
                         [] config.strategy = "first" -> selectFirstResponse(results, timestamps)
                         [] OTHER -> NoResult,
          targets |-> results]

\* selectResponse(results, config, metadata)
selectResponse(results, config, timestamps) ==
    IF ~config.enabled
    THEN LET defaultResponse == selectFirstAvailable(results)
         IN  [response |-> Spread([NoResult EXCEPT
                                      !.selectedTarget = defaultResponse.selectedTarget,
                                      !.strategy = "default"],
                                  defaultResponse),
              targets |-> results]
    ELSE [response |-> CASE config.strategy = "specific" -> selectSpecificTarget(results, config)
                         [] config.strategy = "mock" -> selectMockResponse(config, results)
                         [] OTHER -> selectFirstResponse(results, timestamps),
          targets |-> results]

\* ------------------------------------------------------------ distributor
ReqIds == {"r1"}

NoRequest == [headers |-> Field("h0"), params |-> Field("p0"), body |-> Field(Undefined)]
NoLast == [name |-> Undefined, outs |-> AllReturn, called |-> {},
           before |-> NoRequest, given |-> NoRequest, metadata |-> Undefined]
NoSettled == [ok |-> FALSE, value |-> NoResult, error |-> Undefined]

\* No body is sent.
NoBytes == [encoding |-> "none", of |-> Field(Undefined)]
NoOptions == [method |-> Undefined, headers |-> <<>>, body |-> NoBytes]

\* One sendToTarget call: where it is, its matchingScripts and loop position,
\* its transformedRequest, what it read from the registry, the last transform it
\* awaited, whether fetch was called, how many times and with which options,
\* and how its promise settled.
NewTask(request) ==
    [pc |-> "import", matching |-> <<>>, i |-> 1, request |-> request, lookups |-> <<>>,
     last |-> NoLast, dispatched |-> FALSE, calls |-> 0, options |-> NoOptions,
     settled |-> NoSettled]

IdleRequest ==
    [pc |-> "none", method |-> "", path |-> "", request |-> NoRequest, broadcasts |-> 0,
     targets |-> <<>>,
     config |-> NoActiveConfig, tasks |-> <<>>, clock |-> 0, timestamps |-> <<>>,
     selected |-> 0,
     out |-> [response |-> NoResult, targets |-> <<>>], sent |-> <<>>]

CurrentRegistry == Registry(scripts, scriptMetadata)

\* A variant of the loop that looks at the first matching script only.
FirstOnly(st, names) ==
    IF names = <<>> THEN NoActiveConfig
    ELSE LET script == dbGetScript(st, Head(names))
         IN  IF script # NoRow /\ script.responseConfig.enabled
             THEN [strategy |-> script.responseConfig.strategy,
                   selectedTargetId |-> script.responseConfig.targetId,
                   mockResponse |-> script.responseConfig.mockResponse,
                   mockForce |-> Prop(script.responseConfig, "mockForce"),
                   enabled |-> TRUE]
             ELSE NoActiveConfig

RECURSIVE FirstEnabled(_, _)
\* The loop of broadcast over the scripts matching the path: the responseConfig
\* of the first whose row has responseConfig.enabled, with selectedTargetId as an
\* alias of targetId; null when there is none.
FirstEnabled(st, names) ==
    IF names = <<>> THEN NoActiveConfig
    ELSE LET script == dbGetScript(st, Head(names))
         IN  IF script # NoRow /\ script.responseConfig.enabled
             THEN [strategy |-> script.responseConfig.strategy,
                   selectedTargetId |-> script.responseConfig.targetId,
                   mockResponse |-> script.responseConfig.mockResponse,
                   mockForce |-> Prop(script.responseConfig, "mockForce"),
                   enabled |-> TRUE]
             ELSE FirstEnabled(st, Tail(names))

NotInitialized == [status |-> 503, error |-> "Proxy not initialized", message |-> Undefined,
                   body |-> Undefined]

\* The inbound header maps: of a request that is not JSON ("h0"), of a JSON
\* request ("hj") and of a JSON request sent with content-encoding: gzip
\* ("hjz"), whose body express.json has inflated and parsed.
HeadersFor(body) == IF body = "json" THEN {"hj", "hjz"} ELSE {"h0"}
\* The bodies: parsed JSON, none, and the Buffer express.raw gives for a
\* request of another content type.
Bodies == {"json", Undefined, "raw"}

\* The route handler up to its first await: 503 without a distributor, else
\* build originalRequest and call distributor.broadcast, which awaits the
\* import of the script loader.
Receive(r, method, path, headers, body) ==
    /\ req[r].pc = "none"
    /\ IF ~distributor.ready
       THEN req' = [req EXCEPT ![r].pc = "done",
                               ![r].method = method,
                               ![r].path = path,
                               ![r].sent = <<NotInitialized>>]
       ELSE req' = [req EXCEPT ![r].pc = "import",
                               ![r].broadcasts = @ + 1,
                               ![r].method = method,
                               ![r].path = path,
                               ![r].request = [headers |-> Field(headers),
                                               params |-> Field("p0"),
                                               body |-> Field(body)],
                               ![r].targets = distributor.targets]
    /\ UNCHANGED <<regVars, distributor, faultsLeft>>

\* A variant of broadcast that maps over the targets of the distributor
\* proxy-worker holds when the import has resolved.
BroadcastStartCurrent(r) ==
    /\ req[r].pc = "import"
    /\ req' = [req EXCEPT
                 ![r].pc = "fanout",
                 ![r].config = FirstEnabled(store, getScriptsForPath(CurrentRegistry, req[r].path)),
                 ![r].targets = distributor.targets,
                 ![r].tasks = [t \in 1..Len(distributor.targets) |-> NewTask(req[r].request)]]
    /\ UNCHANGED <<regVars, distributor, faultsLeft>>

\* broadcast from the import to Promise.allSettled: pick the response config,
\* then start sendToTarget for every target; each runs to its own import.
BroadcastStart(r) ==
    /\ req[r].pc = "import"
    /\ req' = [req EXCEPT
                 ![r].pc = "fanout",
                 ![r].config = FirstEnabled(store, getScriptsForPath(CurrentRegistry, req[r].path)),
                 ![r].tasks = [t \in 1..Len(req[r].targets) |-> NewTask(req[r].request)]]
    /\ UNCHANGED <<regVars, distributor, faultsLeft>>

\* A variant of the path check that passes over a script whose pattern is not a
\* regular expression.
SkippedWhenInvalid(reg, name, path) ==
    LET metadata == getScriptMetadata(reg, name)
    IN  /\ metadata.pathPattern # ""
        /\ ~RegexTest(metadata.pathPattern, path)

\* The path check of sendToTarget's loop: a script with a pathPattern that does
\* not match the path is skipped; an invalid pattern is logged and the script runs.
Skipped(reg, name, path) ==
    LET metadata == getScriptMetadata(reg, name)
    IN  /\ metadata.pathPattern # ""
        /\ metadata.pathPattern # InvalidPattern
        /\ ~RegexTest(metadata.pathPattern, path)

RECURSIVE NextApplied(_, _, _, _)
\* The first position from i on whose script is not skipped (Len + 1: none).
NextApplied(reg, matching, i, path) ==
    IF i > Len(matching) THEN i
    ELSE IF Skipped(reg, matching[i], path) THEN NextApplied(reg, matching, i + 1, path)
    ELSE i

\* The registry reads of the loop from position i to position j.
Reads(reg, matching, i, j) ==
    [k \in 1..(IF j > Len(matching) THEN Len(matching) - i + 1 ELSE j - i + 1) |->
        [name |-> matching[i + k - 1],
         metadata |-> getScriptMetadata(reg, matching[i + k - 1]),
         unit |-> IF i + k - 1 = j THEN getScript(reg, matching[j]) ELSE "unread"]]

\* What fetch does: a response with a 2xx or another status, or a rejection (a
\* network error, the abort of AbortSignal.timeout).
FetchOutcomes == {"2xx", "non2xx", "neterr"}

\* The value sendToTarget returns, or the error it rethrows.
Settlement(target, outcome) ==
    CASE outcome = "2xx" ->
            [ok |-> TRUE, error |-> Undefined,
             value |-> [NoResult EXCEPT !.status = 200, !.statusText = "OK",
                                        !.headers = "response headers", !.body = target.id]]
      [] outcome = "non2xx" ->
            [ok |-> TRUE, error |-> Undefined,
             value |-> [NoResult EXCEPT !.status = 500, !.statusText = "Internal Server Error",
                                        !.headers = "response headers", !.body = target.id]]
      [] outcome = "neterr" -> [ok |-> FALSE, error |-> "fetch failed", value |-> NoResult]
      [] outcome = "threw" -> [ok |-> FALSE, error |-> "not valid JSON", value |-> NoResult]
      [] OTHER -> [ok |-> FALSE, error |-> "Invalid URL", value |-> NoResult]

\* A header map as an object: key -> where its value comes from.  The inbound
\* keys are in lower case, as Node hands them over; a script that returned
\* headers has set x-flux, and the keys of returnCased when it was that call.
InboundKeys(base) ==
    {"host", "connection", "content-type", "content-length"}
       \cup (IF base = "hjz" THEN {"content-encoding"} ELSE {})
ScriptKeys(marks) ==
    (IF \E k \in 1..Len(marks) : marks[k][2] = "cased"
     THEN {"Connection", "Content-Encoding", "CONTENT-LENGTH"} ELSE {})
       \cup (IF marks # <<>> THEN {"x-flux"} ELSE {})
HeaderMap(field) ==
    [k \in InboundKeys(field.base) \cup ScriptKeys(field.marks) |->
        IF k \in ScriptKeys(field.marks) THEN "script" ELSE "inbound"]

\* String.prototype.toLowerCase on the keys above.
Lower(key) ==
    CASE key = "Connection" -> "connection"
      [] key = "Content-Encoding" -> "content-encoding"
      [] key \in {"CONTENT-LENGTH", "Content-Length"} -> "content-length"
      [] OTHER -> key

removeHeaders == {"host", "connection", "keep-alive", "transfer-encoding", "upgrade",
                  "content-length", "content-encoding"}

\* cleanHeaders(headers): a copy without the keys of removeHeaders, each deleted
\* as it is spelt in the list (and, again, as its toLowerCase()).
cleanHeaders(headers) ==
    [k \in {h \in DOMAIN headers : h \notin removeHeaders /\ h \notin {Lower(x) : x \in removeHeaders}}
        |-> headers[k]]

\* The methods sendToTarget sends a body with, and whether a body is truthy.
BodyMethods == {"POST", "PUT", "PATCH", "DELETE"}
Truthy(body) == body.base \notin {Undefined, Null} \/ body.marks # <<>>

\* The bytes sent for a body: JSON.stringify of an object, a Buffer or a string
\* as it is; never compressed.
Serialized(body) == [encoding |-> "identity", of |-> body]
\* Buffer.byteLength(jsonBody).toString()
ByteLength(bytes) ==
    IF bytes.encoding = "gzip" THEN "length of the compressed bytes"
    ELSE "length of the serialized bytes"

\* A variant of the Content-Length step that deletes the key 'content-length'
\* only.
SetContentLengthExact(headers, bytes) ==
    [k \in (DOMAIN headers \ {"content-length"}) \cup {"Content-Length"} |->
        IF k = "Content-Length" THEN ByteLength(bytes) ELSE headers[k]]

\* The Content-Length step: delete every key that is content-length in lower
\* case, then set 'Content-Length' to the byte length of the body.
SetContentLength(headers, bytes) ==
    [k \in {h \in DOMAIN headers : Lower(h) # "content-length"} \cup {"Content-Length"} |->
        IF k = "Content-Length" THEN ByteLength(bytes) ELSE headers[k]]

\* The options sendToTarget calls fetch with.
Options(method, request) ==
    LET headers == cleanHeaders(HeaderMap(request.headers))
    IN  IF method \in BodyMethods /\ Truthy(request.body)
        THEN [method |-> method,
              headers |-> SetContentLength(headers, Serialized(request.body)),
              body |-> Serialized(request.body)]
        ELSE [method |-> method, headers |-> headers, body |-> NoBytes]

\* A variant in which every call is handed the metadata of one and the same
\* target.
MetadataOfOne(target) == IF T1.metadata = Undefined THEN "{}" ELSE T1.metadata

\* The third argument of transform, which safeExecute passes to the script's
\* function as its second: target.metadata || {}
MetadataArg(target) == IF target.metadata = Undefined THEN "{}" ELSE target.metadata

\* The body of the task is still the object originalRequest.body: sendToTarget
\* starts from that object, transform copies it for a JSON request only, and a
\* transformBody that returns puts its result in its place.
SharesBody(request) ==
    /\ ~IsJson(request.headers)
    /\ \A k \in 1..Len(request.body.marks) : request.body.marks[k][2] = "mut"

\* The transform changed, in place, the object the task shares.
Leaks(task, res, outs) ==
    /\ SharesBody(task.request)
    /\ 3 \in res.called
    /\ outs[3] = "mutateThrow"
    /\ res.request.body # task.request.body

\* The handler state after a step of task t: the task as it is next, and, when
\* it changed the shared body, that body wherever it is referred to.
WithShared(state, t, next, leaks) ==
    [state EXCEPT
       !.request.body = IF leaks THEN next.request.body ELSE @,
       !.tasks = [u \in 1..Len(state.tasks) |->
                    IF u = t THEN next
                    ELSE IF leaks /\ SharesBody(state.tasks[u].request)
                    THEN [state.tasks[u] EXCEPT !.request.body = next.request.body]
                    ELSE state.tasks[u]]]

\* sendToTarget between two awaits: after the import, getScriptsForTags; then the
\* loop up to the next script that is not skipped and transform with it (when
\* transform throws, the catch rethrows and the task has failed); with no
\* script left, build the URL and the options (prep = "throws": that throws) and
\* call fetch.  e is Date.now() - startTime when the task's promise settles here.
TaskAdvance(r, t, outs, prep, e) ==
    /\ req[r].pc = "fanout"
    /\ req[r].tasks[t].pc \in {"import", "loop"}
    /\ e \in req[r].clock..MaxClock
    /\ \E task \in {req[r].tasks[t]}, target \in {req[r].targets[t]}, reg \in {CurrentRegistry} :
       \E matching \in {IF task.pc = "import" THEN getScriptsForTags(reg, target.tags)
                         ELSE task.matching} :
       \E j \in {NextApplied(reg, matching, task.i, req[r].path)} :
       \E seen \in {task.lookups \o Reads(reg, matching, task.i, j)} :
          IF j <= Len(matching)
          THEN \E res \in {transform(reg, task.request, matching[j], outs)} :
                  /\ prep = "ok"
                  /\ \A i \in 1..3 : i \notin res.called => outs[i] = "return"
                  /\ Faulty(outs) <= faultsLeft
                  /\ faultsLeft' = faultsLeft - Faulty(outs)
                  /\ \E next \in {[task EXCEPT !.matching = matching,
                                                !.i = j + 1,
                                                !.lookups = seen,
                                                !.last = [name |-> matching[j], outs |-> outs,
                                                          called |-> res.called,
                                                          before |-> task.request,
                                                          given |-> res.given,
                                                          metadata |-> MetadataArg(target)],
                                                !.request = res.request]} :
                        IF res.state = "threw"
                        THEN req' = [req EXCEPT
                                       ![r].clock = e,
                                       ![r].timestamps = MapSet(@, Key(target), e),
                                       ![r].tasks[t] =
                                          [next EXCEPT !.pc = "settled",
                                                       !.settled = Settlement(target, "threw")]]
                        ELSE /\ e = req[r].clock
                             /\ req' = [req EXCEPT ![r] =
                                          WithShared(req[r], t,
                                                     [next EXCEPT !.pc = IF res.state = "hung"
                                                                         THEN "hung" ELSE "loop"],
                                                     Leaks(task, res, outs))]
          ELSE /\ outs = AllReturn
               /\ UNCHANGED faultsLeft
               /\ IF prep = "ok"
                  THEN /\ e = req[r].clock
                       /\ req' = [req EXCEPT ![r].tasks[t] =
                                    [task EXCEPT !.pc = "fetch", !.matching = matching,
                                                 !.i = j, !.lookups = seen,
                                                 !.dispatched = TRUE,
                                                 !.calls = @ + 1,
                                                 !.options = Options(req[r].method,
                                                                     task.request)]]
                  ELSE req' = [req EXCEPT
                                 ![r].clock = e,
                                 ![r].timestamps = MapSet(@, Key(target), e),
                                 ![r].tasks[t] =
                                    [task EXCEPT !.pc = "settled", !.matching = matching,
                                                 !.i = j, !.lookups = seen,
                                                 !.settled = Settlement(target, "prepfail")]]
    /\ UNCHANGED <<regVars, distributor>>

\* A variant in which timestamps is one object of the distributor that every
\* broadcast writes to.
TaskSettleShared(r, t, outcome, e) ==
    LET task == req[r].tasks[t]
        target == req[r].targets[t]
    IN  /\ req[r].pc = "fanout"
        /\ task.pc = "fetch"
        /\ e \in req[r].clock..MaxClock
        /\ req' = [q \in DOMAIN req |->
                     IF q = r
                     THEN [req[r] EXCEPT !.clock = e,
                                         !.timestamps = MapSet(@, Key(target), e),
                                         !.tasks[t] = [task EXCEPT
                                                         !.pc = "settled",
                                                         !.settled = Settlement(target, outcome)]]
                     ELSE [req[q] EXCEPT !.timestamps = MapSet(@, Key(target), e)]]
        /\ UNCHANGED <<regVars, distributor, faultsLeft>>

\* A variant in which a call that fails on the network is made once more.
TaskSettleRetrying(r, t, outcome, e) ==
    LET task == req[r].tasks[t]
        target == req[r].targets[t]
    IN  /\ req[r].pc = "fanout"
        /\ task.pc = "fetch"
        /\ e \in req[r].clock..MaxClock
        /\ IF outcome = "neterr" /\ task.calls < 2
           THEN req' = [req EXCEPT ![r].clock = e,
                                   ![r].tasks[t] = [task EXCEPT !.calls = @ + 1]]
           ELSE req' = [req EXCEPT ![r].clock = e,
                                   ![r].timestamps = MapSet(@, Key(target), e),
                                   ![r].tasks[t] = [task EXCEPT
                                                      !.pc = "settled",
                                                      !.settled = Settlement(target, outcome)]]
        /\ UNCHANGED <<regVars, distributor, faultsLeft>>

\* fetch settles: sendToTarget returns the parsed response or rethrows, and the
\* then / catch of broadcast records the elapsed time under the target's key.
TaskSettle(r, t, outcome, e) ==
    LET task == req[r].tasks[t]
        target == req[r].targets[t]
    IN  /\ req[r].pc = "fanout"
        /\ task.pc = "fetch"
        /\ e \in req[r].clock..MaxClock
        /\ req' = [req EXCEPT ![r].clock = e,
                              ![r].timestamps = MapSet(@, Key(target), e),
                              ![r].tasks[t] = [task EXCEPT !.pc = "settled",
                                                           !.settled = Settlement(target, outcome)]]
        /\ UNCHANGED <<regVars, distributor, faultsLeft>>

\* The aggregate entry of one settled task.
Entry(target, settled) ==
    IF settled.ok THEN [settled.value EXCEPT !.targetId = target.id]
    ELSE [NoResult EXCEPT !.status = 0, !.error = settled.error, !.body = Null,
                          !.targetId = target.id]

RECURSIVE Aggregate(_, _, _, _)
\* results.forEach of broadcast: aggregated[key] = the entry, in target order.
Aggregate(aggregated, targets, tasks, t) ==
    IF t > Len(targets) THEN aggregated
    ELSE Aggregate(MapSet(aggregated, Key(targets[t]), Entry(targets[t], tasks[t].settled)),
                   targets, tasks, t + 1)

\* A variant of the wait that is over as soon as one task has settled.
AnySettled(tasks) == tasks = <<>> \/ \E t \in 1..Len(tasks) : tasks[t].pc = "settled"

\* await Promise.allSettled(promises)
AllSettled(tasks) == \A t \in 1..Len(tasks) : tasks[t].pc = "settled"

\* broadcast after Promise.allSettled: aggregate and call the selector.
BroadcastReturn(r) ==
    /\ req[r].pc = "fanout"
    /\ AllSettled(req[r].tasks)
    /\ req' = [req EXCEPT
                 ![r].pc = "returned",
                 ![r].selected = @ + 1,
                 ![r].out = selectResponse(Aggregate(<<>>, req[r].targets, req[r].tasks, 1),
                                           req[r].config, req[r].timestamps)]
    /\ UNCHANGED <<regVars, distributor, faultsLeft>>

\* res.status(code) ... .json(body) writes a head only for a code from 100 to 999.
ValidStatus(code) == code >= 100 /\ code <= 999

ProxyError == [status |-> 500, error |-> "Proxy error", message |-> "Invalid status code",
               body |-> Undefined]

\* A variant of the handler's continuation without the catch.
RespondUncaught(r) ==
    /\ req[r].pc = "returned"
    /\ req' = [req EXCEPT
                 ![r].pc = "done",
                 ![r].sent = IF ValidStatus(req[r].out.response.status)
                             THEN Append(@, [status |-> req[r].out.response.status,
                                             error |-> Undefined, message |-> Undefined,
                                             body |-> req[r].out.response.body])
                             ELSE @]
    /\ UNCHANGED <<regVars, distributor, faultsLeft>>

\* The route handler after await distributor.broadcast: send the selected
\* response; what throws on the way is caught and answered with 500.
Respond(r) ==
    /\ req[r].pc = "returned"
    /\ req' = [req EXCEPT
                 ![r].pc = "done",
                 ![r].sent = IF ValidStatus(req[r].out.response.status)
                             THEN Append(@, [status |-> req[r].out.response.status,
                                             error |-> Undefined, message |-> Undefined,
                                             body |-> req[r].out.response.body])
                             ELSE Append(@, ProxyError)]
    /\ UNCHANGED <<regVars, distributor, faultsLeft>>

\* ---------------------------------------------------------- specifications
OutTriples == [1..3 -> Outcomes]

ProxyNext ==
    \/ \E r \in ReqIds, path \in Paths, body \in {"json", Undefined} :
          Receive(r, "POST", path, IF body = "json" THEN "hj" ELSE "h0", body)
    \/ \E r \in ReqIds : BroadcastStart(r)
    \/ \E r \in ReqIds : \E t \in 1..Len(req[r].tasks) :
          \E outs \in OutTriples, prep \in {"ok", "throws"}, e \in 0..MaxClock :
             TaskAdvance(r, t, outs, prep, e)
    \/ \E r \in ReqIds : \E t \in 1..Len(req[r].tasks) :
          \E outcome \in FetchOutcomes, e \in 0..MaxClock : TaskSettle(r, t, outcome, e)
    \/ \E r \in ReqIds : BroadcastReturn(r)
    \/ \E r \in ReqIds : Respond(r)

\* loadConfig(): the distributor over db.getAllTargets(), or none when that throws.
loadConfig == {[ready |-> FALSE, targets |-> <<>>]}
              \cup {[ready |-> TRUE, targets |-> l] : l \in TargetLists}

\* The script tables a request is followed over.
Tables == {st \in [Names -> StoreRows] :
              st["s1"].content \in {"A", "B"} /\ st["s2"].content \in {"B", Undefined}}

\* The proxy worker after initialize(): loadConfig(), then the first
\* loadAllScripts() over the rows of the table.
Init ==
    /\ store \in Tables
    /\ nmut = 0
    /\ scripts = loadAllScripts(EmptyRegistry, store).scripts
    /\ scriptMetadata = loadAllScripts(EmptyRegistry, store).scriptMetadata
    /\ loads = [l \in Loaders |-> Idle]
    /\ freshDone = 1
    /\ distributor \in loadConfig
    /\ faultsLeft = MaxFaults
    /\ req = [r \in ReqIds |-> IdleRequest]

Next == ProxyNext

\* One inbound request through the proxy worker, the registry as loaded at start.
Spec == Init /\ [][Next]_vars

\* The proxy worker with one target, its loader polling the table, which the
\* management server has one write left to make.
HotInit ==
    /\ store \in {st \in Tables : st["s2"].content = "B"}
    /\ nmut = MaxMutations - 1
    /\ scripts = loadAllScripts(EmptyRegistry, store).scripts
    /\ scriptMetadata = loadAllScripts(EmptyRegistry, store).scriptMetadata
    /\ loads = [l \in Loaders |-> Idle]
    /\ freshDone = 1
    /\ distributor = [ready |-> TRUE, targets |-> <<T1>>]
    /\ faultsLeft = 0
    /\ req = [r \in ReqIds |-> IdleRequest]

HotNext ==
    \/ Quiet /\ ProxyNext
    \/ PollTick
    \/ LoadStep("poll")
    \/ \E n \in Names, k \in StoreRows : DbWrite(n, k)

\* A request served while the table is written and reloaded.
SpecHot == HotInit /\ [][HotNext]_vars

LiveInit ==
    /\ Init
    /\ store["s1"].content = "A"
    /\ store["s2"].content = "B"
    /\ distributor.targets \in {<<>>, <<T1>>}

\* The same under the event loop's scheduling: a callback that is ready to run
\* is run.
LiveSpec == LiveInit /\ [][Next]_vars /\ WF_vars(Next)

\* The path patterns of the rows a pipeline is followed over.
Patterns == {"", "^/track/", "other$", InvalidPattern}
PipeRows(content) ==
    {[content |-> content, tags |-> <<>>, pathPattern |-> p, responseConfig |-> NoPolicy] :
        p \in Patterns}
PipeTables == {st \in [Names -> PipeRows("A") \cup PipeRows("B") \cup {NoRow}] :
                  st["s1"] \in PipeRows("A") /\ st["s2"] \in PipeRows("B") \cup {NoRow}}

PipeInit ==
    /\ store \in PipeTables
    /\ nmut = 0
    /\ scripts = loadAllScripts(EmptyRegistry, store).scripts
    /\ scriptMetadata = loadAllScripts(EmptyRegistry, store).scriptMetadata
    /\ loads = [l \in Loaders |-> Idle]
    /\ freshDone = 1
    /\ distributor \in {[ready |-> TRUE, targets |-> l] : l \in {<<T1>>, <<T2>>}}
    /\ faultsLeft = MaxFaults
    /\ req = [r \in ReqIds |-> IdleRequest]

RichTriples == [1..3 -> RichOutcomes]

PipeNext ==
    \/ \E r \in ReqIds, path \in Paths, body \in {"json", Undefined} :
          Receive(r, "POST", path, IF body = "json" THEN "hj" ELSE "h0", body)
    \/ \E r \in ReqIds : BroadcastStart(r)
    \/ \E r \in ReqIds : \E t \in 1..Len(req[r].tasks) :
          \E outs \in RichTriples, prep \in {"ok", "throws"}, e \in 0..MaxClock :
             TaskAdvance(r, t, outs, prep, e)
    \/ \E r \in ReqIds : \E t \in 1..Len(req[r].tasks) :
          \E outcome \in FetchOutcomes, e \in 0..MaxClock : TaskSettle(r, t, outcome, e)
    \/ \E r \in ReqIds : BroadcastReturn(r)
    \/ \E r \in ReqIds : Respond(r)

\* One inbound request through scripts with path patterns, whose functions may
\* also return values that JSON does not preserve.
SpecPipe == PipeInit /\ [][PipeNext]_vars

SendTables == {st \in PipeTables :
                  st["s1"].pathPattern = "" /\ st["s2"] \in {NoRow} \cup {k \in PipeRows("B") :
                                                                            k.pathPattern = ""}}
SendInit ==
    /\ store \in SendTables
    /\ nmut = 0
    /\ scripts = loadAllScripts(EmptyRegistry, store).scripts
    /\ scriptMetadata = loadAllScripts(EmptyRegistry, store).scriptMetadata
    /\ loads = [l \in Loaders |-> Idle]
    /\ freshDone = 1
    /\ distributor \in {d \in loadConfig : d.targets \in {<<>>, <<T1>>, <<T2, T1>>}}
    /\ faultsLeft = MaxFaults
    /\ req = [r \in ReqIds |-> IdleRequest]

Methods == {"GET", "POST", "DELETE"}
\* What the calls of a script's functions do here: transformHeaders returns,
\* with or without the keys of returnCased; the other two return.
CasedTriples == {outs \in [1..3 -> CasedOutcomes] :
                    outs[1] \in {"return", "returnCased"} /\ outs[2] = "return"
                       /\ outs[3] = "return"}

SendNext ==
    \/ \E r \in ReqIds, method \in Methods, path \in Paths, body \in {"json", Undefined} :
          \E headers \in HeadersFor(body) : Receive(r, method, path, headers, body)
    \/ \E r \in ReqIds : BroadcastStart(r)
    \/ \E r \in ReqIds : \E t \in 1..Len(req[r].tasks) :
          \E outs \in CasedTriples, prep \in {"ok", "throws"}, e \in 0..MaxClock :
             TaskAdvance(r, t, outs, prep, e)
    \/ \E r \in ReqIds : \E t \in 1..Len(req[r].tasks) :
          \E outcome \in FetchOutcomes, e \in 0..MaxClock : TaskSettle(r, t, outcome, e)
    \/ \E r \in ReqIds : BroadcastReturn(r)
    \/ \E r \in ReqIds : Respond(r)

\* Requests of every method, plain and gzip-encoded, through scripts that may
\* add headers, up to the options of the outbound calls.
SpecSend == SendInit /\ [][SendNext]_vars

\* The script s1 exports transformHeaders only.
CodecInit ==
    /\ store = [n \in Names |-> IF n = "s1"
                                 THEN [content |-> "H", tags |-> <<>>, pathPattern |-> "",
                                       responseConfig |-> NoPolicy]
                                 ELSE NoRow]
    /\ nmut = 0
    /\ scripts = loadAllScripts(EmptyRegistry, store).scripts
    /\ scriptMetadata = loadAllScripts(EmptyRegistry, store).scriptMetadata
    /\ loads = [l \in Loaders |-> Idle]
    /\ freshDone = 1
    /\ distributor \in {d \in loadConfig : d.targets \in {<<T1>>, <<T2, T1>>}}
    /\ faultsLeft = MaxFaults
    /\ req = [r \in ReqIds |-> IdleRequest]

\* Requests with a JSON body, plain and gzip-encoded, through a script that
\* works on the headers and leaves the body alone.
SpecCodec == CodecInit /\ [][SendNext]_vars

\* What the calls of a script's functions do here: transformHeaders and
\* transformParams return, transformBody does any of the things it can do.
BodyTriples == {outs \in OutTriples : outs[1] = "return" /\ outs[2] = "return"}

ShareNext ==
    \/ \E r \in ReqIds, body \in Bodies \ {Undefined} :
          Receive(r, "POST", "/other", IF body = "json" THEN "hj" ELSE "h0", body)
    \/ \E r \in ReqIds : BroadcastStart(r)
    \/ \E r \in ReqIds : \E t \in 1..Len(req[r].tasks) :
          \E outs \in BodyTriples, prep \in {"ok", "throws"}, e \in 0..MaxClock :
             TaskAdvance(r, t, outs, prep, e)
    \/ \E r \in ReqIds : \E t \in 1..Len(req[r].tasks) :
          \E outcome \in FetchOutcomes, e \in 0..MaxClock : TaskSettle(r, t, outcome, e)
    \/ \E r \in ReqIds : BroadcastReturn(r)
    \/ \E r \in ReqIds : Respond(r)

\* A request with a body, JSON or not, through the scripts of one or two
\* targets.
SpecShare == SendInit /\ [][ShareNext]_vars

\* The 10 s timer of proxy-worker fires: loadConfig() puts a new Distributor
\* over db.getAllTargets() in place of the old one, or, when that throws, logs
\* and leaves the old one.
ConfigPoll(loaded) ==
    /\ distributor' = IF loaded.ready THEN loaded ELSE distributor
    /\ UNCHANGED <<regVars, faultsLeft, req>>

RefreshInit ==
    /\ store \in {st \in Tables : st["s1"].content = "A" /\ st["s2"].content = "B"}
    /\ nmut = 0
    /\ scripts = loadAllScripts(EmptyRegistry, store).scripts
    /\ scriptMetadata = loadAllScripts(EmptyRegistry, store).scriptMetadata
    /\ loads = [l \in Loaders |-> Idle]
    /\ freshDone = 1
    /\ distributor \in loadConfig
    /\ faultsLeft = 0
    /\ req = [r \in ReqIds |-> IdleRequest]

RefreshNext ==
    \/ ProxyNext
    \/ \E loaded \in loadConfig : ConfigPoll(loaded)

\* A request served while the targets are edited and the configuration is
\* polled.
SpecRefresh == RefreshInit /\ [][RefreshNext]_vars

\* Two inbound requests whose handlers are in progress at the same time.
PairIds == {"r1", "r2"}

\* The script s1, when stored, enables the policy 'first' for every path.
PairInit ==
    /\ store \in {[n \in Names |-> NoRow],
                  [n \in Names |-> IF n = "s1"
                                    THEN [content |-> "A", tags |-> <<"x">>, pathPattern |-> "",
                                          responseConfig |-> PolicyFirst]
                                    ELSE NoRow]}
    /\ nmut = 0
    /\ scripts = loadAllScripts(EmptyRegistry, store).scripts
    /\ scriptMetadata = loadAllScripts(EmptyRegistry, store).scriptMetadata
    /\ loads = [l \in Loaders |-> Idle]
    /\ freshDone = 1
    /\ distributor = [ready |-> TRUE, targets |-> <<T2, T1>>]
    /\ faultsLeft = 0
    /\ req = [r \in PairIds |-> IdleRequest]

PairNext ==
    \/ \E r \in PairIds, path \in Paths : Receive(r, "POST", path, "hj", "json")
    \/ \E r \in PairIds : BroadcastStart(r)
    \/ \E r \in PairIds : \E t \in 1..Len(req[r].tasks) :
          \E e \in 0..MaxClock : TaskAdvance(r, t, AllReturn, "ok", e)
    \/ \E r \in PairIds : \E t \in 1..Len(req[r].tasks) :
          \E outcome \in {"2xx", "neterr"}, e \in 0..MaxClock : TaskSettle(r, t, outcome, e)
    \/ \E r \in PairIds : BroadcastReturn(r)
    \/ \E r \in PairIds : Respond(r)

\* Two requests, their handlers' steps interleaved in every order.
SpecPair == PairInit /\ [][PairNext]_vars

\* The mock responses of a policy: none, one with every field, one with none.
MockFull == [configured |-> TRUE, status |-> 201, statusText |-> "Created",
             headers |-> "mock headers", body |-> "mock body"]
MockBare == [configured |-> TRUE, status |-> 0, statusText |-> Undefined, headers |-> Undefined,
             body |-> Undefined]
\* The policies the selector is called with: none, a disabled one, and the
\* enabled ones per strategy (one that is no strategy of the switch included),
\* target reference, mock response and mockForce.
Policies ==
    {NoActiveConfig, [NoActiveConfig EXCEPT !.strategy = "first"]}
    \cup {[NoActiveConfig EXCEPT !.enabled = TRUE, !.strategy = "specific",
                                 !.selectedTargetId = id] : id \in {Undefined, "t1", "t2", "t9"}}
    \cup {[NoActiveConfig EXCEPT !.enabled = TRUE, !.strategy = s] :
             s \in {"first", "all", "unknown"}}
    \cup {[NoActiveConfig EXCEPT !.enabled = TRUE, !.strategy = "mock", !.mockResponse = m,
                                 !.mockForce = f] :
             m \in {NoMock, MockFull, MockBare}, f \in {Undefined, "true", "false"}}

\* The data of a save from the script editor: a mock policy with the
\* "force mock" box ticked or not (responseConfig.mockForce of the body of
\* POST /api/scripts and PUT /api/scripts/:name).
SaveRows ==
    {[content |-> "A", tags |-> <<>>, pathPattern |-> "",
      responseConfig |-> [strategy |-> "mock", targetId |-> Undefined,
                          mockResponse |-> MockFull, enabled |-> TRUE, mockForce |-> f]] :
        f \in {"true", "false"}}

\* The script s1 was saved with such a policy and has been loaded.
SaveInit ==
    /\ store \in {[n \in Names |-> IF n = "s1" THEN k ELSE NoRow] : k \in SaveRows}
    /\ nmut = 0
    /\ scripts = loadAllScripts(EmptyRegistry, store).scripts
    /\ scriptMetadata = loadAllScripts(EmptyRegistry, store).scriptMetadata
    /\ loads = [l \in Loaders |-> Idle]
    /\ freshDone = 1
    /\ distributor \in {d \in loadConfig : d.targets \in {<<T1>>, <<T2, T1>>}}
    /\ faultsLeft = 0
    /\ req = [r \in ReqIds |-> IdleRequest]

\* Requests through a script saved with a mock policy, up to the response.
SpecSave == SaveInit /\ [][SendNext]_vars

\* A broadcast that has dispatched to every target, under each policy.
SelectInit ==
    /\ store = [n \in Names |-> NoRow]
    /\ nmut = 0
    /\ scripts = <<>>
    /\ scriptMetadata = <<>>
    /\ loads = [l \in Loaders |-> Idle]
    /\ freshDone = 1
    /\ distributor \in {[ready |-> TRUE, targets |-> l] : l \in TargetLists}
    /\ faultsLeft = 0
    /\ \E config \in Policies :
          req = [r \in ReqIds |->
                   [IdleRequest EXCEPT
                      !.pc = "fanout",
                      !.broadcasts = 1,
                      !.method = "POST",
                      !.path = "/other",
                      !.targets = distributor.targets,
                      !.config = config,
                      !.tasks = [t \in 1..Len(distributor.targets) |->
                                   [NewTask(NoRequest) EXCEPT
                                      !.pc = "fetch",
                                      !.dispatched = TRUE,
                                      !.calls = 1,
                                      !.options = Options("POST", NoRequest)]]]]

\* The target lists with nicknames that are written like integers.
KeyLists == { <<>>, <<T1, T4>>, <<T4, T1>>, <<T5, T4>> }

\* A broadcast that has dispatched to every target of such a list.
KeysInit ==
    /\ store = [n \in Names |-> NoRow]
    /\ nmut = 0
    /\ scripts = <<>>
    /\ scriptMetadata = <<>>
    /\ loads = [l \in Loaders |-> Idle]
    /\ freshDone = 1
    /\ distributor \in {[ready |-> TRUE, targets |-> l] : l \in KeyLists}
    /\ faultsLeft = 0
    /\ \E config \in Policies :
          req = [r \in ReqIds |->
                   [IdleRequest EXCEPT
                      !.pc = "fanout",
                      !.broadcasts = 1,
                      !.method = "POST",
                      !.path = "/other",
                      !.targets = distributor.targets,
                      !.config = config,
                      !.tasks = [t \in 1..Len(distributor.targets) |->
                                   [NewTask(NoRequest) EXCEPT
                                      !.pc = "fetch",
                                      !.dispatched = TRUE,
                                      !.calls = 1,
                                      !.options = Options("POST", NoRequest)]]]]

SelectNext ==
    \/ \E r \in ReqIds : \E t \in 1..Len(req[r].tasks) :
          \E outcome \in FetchOutcomes, e \in 0..MaxClock : TaskSettle(r, t, outcome, e)
    \/ \E r \in ReqIds : BroadcastReturn(r)
    \/ \E r \in ReqIds : Respond(r)

\* The selector on the aggregate of every combination of target outcomes and
\* elapsed times.
SpecSelect == SelectInit /\ [][SelectNext]_vars

\* The same for targets whose aggregate keys are written like integers.
SpecKeys == KeysInit /\ [][SelectNext]_vars

RegInit ==
    /\ store = [n \in Names |-> NoRow]
    /\ nmut = 0
    /\ scripts = <<>>
    /\ scriptMetadata = <<>>
    /\ loads = [l \in Loaders |-> Idle]
    /\ freshDone = 0
    /\ distributor = [ready |-> FALSE, targets |-> <<>>]
    /\ faultsLeft = 0
    /\ req = [r \in ReqIds |-> IdleRequest]

RegNext ==
    \/ PollTick
    \/ \E l \in Loaders : LoadStep(l)
    \/ \E n \in Names, k \in RowKinds : ApiPutScript(n, k)
    \/ \E n \in Names : ApiDeleteScript(n)
    \/ \E n \in Names, k \in StoreRows : DbWrite(n, k)

SpecReload == RegInit /\ [][RegNext]_vars

\* The same with the timer of startPolling firing again and again (setInterval,
\* 5 s) and the microtasks of a running call being run.
SpecReloadLive ==
    /\ RegInit
    /\ [][RegNext]_vars
    /\ WF_vars(PollTick)
    /\ \A l \in Loaders : WF_vars(LoadStep(l))

\* ------------------------------------------------------------- properties
InStore(n) == store[n] # NoRow
NoDuplicates(s) == \A i, j \in 1..Len(s) : s[i] = s[j] => i = j

\* C8: once a reload that started after the last write has completed (and none
\* is running), a script whose stored source does not compile is in neither map
\* of the registry, so getScript returns undefined for it and no
\* getScriptsForTags result lists it, and every stored script that compiles is
\* loaded with its stored source.
C8_FailedCompileAbsent ==
    (freshDone >= 1 /\ Quiet) =>
        \A n \in Names :
            /\ (InStore(n) /\ ~Compiles(store[n].content)) =>
                  /\ getScript(CurrentRegistry, n) = Undefined
                  /\ ~MapHas(scriptMetadata, n)
                  /\ \A tags \in {<<>>, <<"x">>, <<"y">>} :
                        n \notin Range(getScriptsForTags(CurrentRegistry, tags))
            /\ (InStore(n) /\ Compiles(store[n].content)) =>
                  getScript(CurrentRegistry, n) = store[n].content

\* C9: once a reload that started after the last write has completed, each map
\* of the registry has one entry per name at most, and no entry for a name that
\* has no row in the store.
C9_NoStaleUnits ==
    freshDone >= 1 =>
        /\ NoDuplicates(MapKeys(scripts))
        /\ NoDuplicates(MapKeys(scriptMetadata))
        /\ \A n \in Names :
              ~InStore(n) => ~MapHas(scripts, n) /\ ~MapHas(scriptMetadata, n)

\* C10: from every registry the loader can be in, a second loadAllScripts() over
\* the same rows leaves what the first one left: the same names in the same
\* iteration order, the same units and the same metadata per name.
C10_ReloadIdempotent ==
    LET first == loadAllScripts(CurrentRegistry, store)
        second == loadAllScripts(first, store)
    IN  /\ getAllScripts(second) = getAllScripts(first)
        /\ second.scripts = first.scripts
        /\ second.scriptMetadata = first.scriptMetadata

\* A script was created and deleted again, the last write is the deletion, and
\* a reload that started after it has completed: no unit is left.
C9_Witness ==
    /\ nmut = 2
    /\ freshDone >= 1
    /\ Quiet
    /\ \A n \in Names : ~InStore(n)
    /\ scripts = <<>>

\* Two reloads have run to completion over the same two rows, one of them a
\* script that was loaded before its source stopped compiling.
C10_Witness ==
    /\ freshDone = 2
    /\ Quiet
    /\ Len(scripts) = 2
    /\ \E n \in Names : InStore(n) /\ ~Compiles(store[n].content) /\ MapHas(scripts, n)

Hung(r) == \E t \in 1..Len(req[r].tasks) : req[r].tasks[t].pc = "hung"
Returned(r) == req[r].selected >= 1
FieldAt(request, i) == IF i = 1 THEN request.headers
                       ELSE IF i = 2 THEN request.params ELSE request.body
Throwing == {"throw", "mutateThrow"}

\* C1: when broadcast has returned, the aggregate has as many entries as there
\* are configured targets, and each target has one entry of its own, carrying
\* its targetId (targets with the same nickname included).
C1_OneEntryPerTarget ==
    \A r \in ReqIds :
        Returned(r) =>
            /\ Len(req[r].out.targets) = Len(req[r].targets)
            /\ \A t \in 1..Len(req[r].targets) :
                  \E i \in 1..Len(req[r].out.targets) :
                     req[r].out.targets[i].v.targetId = req[r].targets[t].id

\* C2: the selector is invoked once at most and only when the task of every
\* configured target has settled; and while the broadcast waits, every task that
\* is not itself awaiting a call that never settles can take its next step,
\* whatever the other tasks did (settled, failed, or hung).
C2_SelectorAfterAllSettled ==
    \A r \in ReqIds :
        /\ req[r].selected <= 1
        /\ Returned(r) => \A t \in 1..Len(req[r].tasks) : req[r].tasks[t].pc = "settled"
        /\ req[r].pc = "fanout" =>
              \A t \in 1..Len(req[r].tasks) :
                 /\ req[r].tasks[t].pc \in {"import", "loop"} =>
                       ENABLED TaskAdvance(r, t, AllReturn, "ok", req[r].clock)
                 /\ req[r].tasks[t].pc = "fetch" =>
                       ENABLED TaskSettle(r, t, "2xx", req[r].clock)

\* The selector has been invoked for two targets, one failed and one answered.
C2_Witness ==
    \E r \in ReqIds :
        /\ Returned(r)
        /\ Len(req[r].tasks) = 2
        /\ ~req[r].tasks[1].settled.ok
        /\ req[r].tasks[2].settled.ok

\* C3: when broadcast has returned, every target is recorded under its key with
\* the result of its own task: {status: 0, error, body: null, targetId} for a
\* task that failed, the response with targetId for one that answered; no
\* target's record depends on how another target's task ended.
C3_FailureRecorded ==
    \A r \in ReqIds :
        Returned(r) =>
            \A t \in 1..Len(req[r].targets) :
               MapGet(req[r].out.targets, Key(req[r].targets[t]), NoResult)
                  = Entry(req[r].targets[t], req[r].tasks[t].settled)

\* C6: after transform with a script, every field whose transform function threw
\* holds the value it held before the call.
C6_ThrowKeepsField ==
    \A r \in ReqIds :
        \A t \in 1..Len(req[r].tasks) :
           LET task == req[r].tasks[t]
           IN  \A i \in task.last.called :
                  task.last.outs[i] \in Throwing =>
                     FieldAt(task.request, i) = FieldAt(task.last.before, i)

\* The response the handler owes a request whose handler has finished.
Owed(r) ==
    IF ~Returned(r) THEN NotInitialized
    ELSE IF ValidStatus(req[r].out.response.status)
    THEN [status |-> req[r].out.response.status, error |-> Undefined, message |-> Undefined,
          body |-> req[r].out.response.body]
    ELSE ProxyError

AnsweredOnce(r) ==
    /\ Len(req[r].sent) <= 1
    /\ req[r].pc = "done" => req[r].sent = <<Owed(r)>>
    /\ req[r].pc # "done" => req[r].sent = <<>>

C5_HungCallAbandoned ==
    \A r \in ReqIds : Hung(r) ~> Returned(r)

\* The registries the loader can build over the names of the store.
LoadableRows == {k \in RowKinds : Compiles(k.content)}
AllTables ==
    {Registry([i \in 1..Len(o) |-> [k |-> o[i], v |-> f[o[i]].content]],
              [i \in 1..Len(o) |-> [k |-> o[i], v |-> [tags |-> f[o[i]].tags,
                                                       pathPattern |-> f[o[i]].pathPattern]]]) :
        o \in {<<>>, <<"s1">>, <<"s2">>, <<"s1", "s2">>, <<"s2", "s1">>},
        f \in [Names -> LoadableRows]}

\* Every lookup the request has made gave what it gives on the table Z.
SeenOn(r, Z) ==
    \A t \in 1..Len(req[r].tasks) :
          LET task == req[r].tasks[t]
          IN  task.pc # "import" =>
                 /\ task.matching = getScriptsForTags(Z, req[r].targets[t].tags)
                 /\ \A k \in 1..Len(task.lookups) :
                       /\ task.lookups[k].metadata = getScriptMetadata(Z, task.lookups[k].name)
                       /\ task.lookups[k].unit \in {"unread", getScript(Z, task.lookups[k].name)}

\* C7: the lookups of a request (each target's matching scripts, the metadata
\* and the unit of each script) are those of one table: there is a table on
\* which every one of them gives what the request saw.
C7_OneTable ==
    \A r \in ReqIds :
        req[r].pc \notin {"none", "import"} => \E Z \in AllTables : SeenOn(r, Z)

\* The tag lists a target can carry.
TagSets == {<<>>, <<"x">>, <<"y">>, <<"x", "y">>}
IndexOf(s, x) == CHOOSE i \in 1..Len(s) : s[i] = x
\* What a process started now on the same table holds after its first load.
FreshRegistry == loadAllScripts(EmptyRegistry, store)

\* C11: once a reload that started after the last write has completed, the
\* scripts getScriptsForTags returns for given target tags come in the order in
\* which a freshly started process returns them for the same table, whatever
\* additions and deletions led to that table.
C11_OrderByContent ==
    (freshDone >= 1 /\ Quiet) =>
        \A tags \in TagSets :
            LET now == getScriptsForTags(CurrentRegistry, tags)
                fresh == getScriptsForTags(FreshRegistry, tags)
            IN  \A i, j \in 1..Len(now) :
                   (i < j /\ now[i] \in Range(fresh) /\ now[j] \in Range(fresh)) =>
                       IndexOf(fresh, now[i]) < IndexOf(fresh, now[j])

\* C12: every loaded script whose tag list is empty is in the result of
\* getScriptsForTags for every target tag list, the empty one included.
C12_UntaggedAlwaysListed ==
    \A n \in Range(getAllScripts(CurrentRegistry)) :
        getScriptMetadata(CurrentRegistry, n).tags = <<>> =>
            \A tags \in TagSets : n \in Range(getScriptsForTags(CurrentRegistry, tags))

\* The registry holds a script without tags after one with tags, so that both
\* branches of the loop are taken for a target that has tags.
C12_Witness ==
    /\ Len(scripts) = 2
    /\ getScriptMetadata(CurrentRegistry, scripts[1].k).tags # <<>>
    /\ getScriptMetadata(CurrentRegistry, scripts[2].k).tags = <<>>
    /\ getScriptsForTags(CurrentRegistry, <<"y">>) = <<scripts[2].k>>

\* The tags of the loaded script and of the target have no tag in common.
Disjoint(scriptTags, targetTags) == Range(scriptTags) \cap Range(targetTags) = {}

\* C13: for every target, a loaded script that has tags, none of them a tag of
\* the target (a target without tags included), is not in the target's matching
\* scripts and transform is not called with it for that target.
C13_DisjointExcluded ==
    \A r \in ReqIds :
        \A t \in 1..Len(req[r].tasks) :
           LET task == req[r].tasks[t]
               excluded == {n \in Range(getAllScripts(CurrentRegistry)) :
                              /\ getScriptMetadata(CurrentRegistry, n).tags # <<>>
                              /\ Disjoint(getScriptMetadata(CurrentRegistry, n).tags,
                                          req[r].targets[t].tags)}
           IN  task.pc # "import" =>
                  /\ Range(task.matching) \cap excluded = {}
                  /\ task.last.name \notin excluded

\* The scripts of a task's list the loop has come to, with whether transform
\* was called with them.
Applied(lookup) == lookup.unit # "unread"

\* C14: a script of the target's matching list that the loop has come to is
\* applied exactly when its pathPattern is empty or the regular expression
\* finds a match in the request path.
C14_AppliedIffPathMatches ==
    \A r \in ReqIds :
        \A t \in 1..Len(req[r].tasks) :
           \A k \in 1..Len(req[r].tasks[t].lookups) :
              LET lookup == req[r].tasks[t].lookups[k]
              IN  Applied(lookup) <=>
                     \/ lookup.metadata.pathPattern = ""
                     \/ RegexTest(lookup.metadata.pathPattern, req[r].path)

\* A value after a JSON round trip.
RoundTrip(field) ==
    [field EXCEPT !.marks = [k \in 1..Len(field.marks) |->
                               <<field.marks[k][1],
                                 IF field.marks[k][2] = "rich" THEN "json"
                                 ELSE field.marks[k][2]>>]]

\* C15: the loop of a task goes through the matching list in order, one script
\* at a time; the functions of the script it applies are called with the
\* headers and the params the script before it left, and with the body it left,
\* after a JSON round trip when the request is a JSON request; and while a call
\* of a script is pending, the task does not go on to the next script.
C15_PipelineOfCopies ==
    \A r \in ReqIds :
        \A t \in 1..Len(req[r].tasks) :
           LET task == req[r].tasks[t]
           IN  /\ \A k \in 1..Len(task.lookups) : task.lookups[k].name = task.matching[k]
               /\ task.last.name # Undefined =>
                     /\ task.last.given.headers = task.last.before.headers
                     /\ task.last.given.params = task.last.before.params
                     /\ task.last.given.body =
                           (IF IsJson(task.last.before.headers)
                            THEN RoundTrip(task.last.before.body)
                            ELSE task.last.before.body)
               /\ task.pc = "hung" =>
                     ~ENABLED (\E outs \in RichTriples, prep \in {"ok", "throws"},
                                  e \in 0..MaxClock : TaskAdvance(r, t, outs, prep, e))

\* The second script of a list has been applied to a JSON request after the
\* first returned a body that JSON does not preserve.
C15_Witness ==
    \E r \in ReqIds :
        \E t \in 1..Len(req[r].tasks) :
           LET task == req[r].tasks[t]
           IN  /\ Len(task.lookups) = 2
               /\ Applied(task.lookups[1]) /\ Applied(task.lookups[2])
               /\ 3 \in task.last.called
               /\ IsJson(task.last.before.headers)
               /\ \E k \in 1..Len(task.last.before.body.marks) :
                     task.last.before.body.marks[k] = <<task.matching[1], "rich">>
               /\ task.last.given.body # task.last.before.body

\* C15 as stated: each function of the script applied is called with exactly
\* the value the script before it left.
C15_ReceivesExactly ==
    \A r \in ReqIds :
        \A t \in 1..Len(req[r].tasks) :
           LET task == req[r].tasks[t]
           IN  \A i \in task.last.called :
                  FieldAt(task.last.given, i) = FieldAt(task.last.before, i)

\* The response the selector chose and the per-target map it returned with it.
Chosen(r) == req[r].out.response
PerTarget(r) == req[r].out.targets
\* The response is the result of this entry of the aggregate.
SameResult(response, entry) ==
    /\ response.selectedTarget = entry.k
    /\ \A f \in {"status", "statusText", "headers", "body", "error", "targetId"} :
          response[f] = entry.v[f]
\* The response is the first-available result: that of the first entry, or
\* the 503 made up for an aggregate without entries.
FirstAvailable(response, aggregate) ==
    IF aggregate = <<>>
    THEN response.status = 503 /\ response.body = "No responses available"
    ELSE SameResult(response, aggregate[1])
Under(r, strategy) ==
    Returned(r) /\ req[r].config.enabled /\ req[r].config.strategy = strategy
Succeeded(aggregate) == {i \in 1..Len(aggregate) : Success(aggregate[i].v)}

\* C16: with no policy, or a policy that is not enabled, the selector returns
\* the result of the first entry of the aggregate with strategy 'default', and
\* with it the whole aggregate.
C16_DefaultTagged ==
    \A r \in ReqIds :
        (Returned(r) /\ ~req[r].config.enabled) =>
            /\ FirstAvailable(Chosen(r), PerTarget(r))
            /\ Chosen(r).strategy = "default"
            /\ PerTarget(r) = Aggregate(<<>>, req[r].targets, req[r].tasks, 1)

Elapsed(r, key) == MapGet(req[r].timestamps, key, Infinity)

\* C18: under strategy 'first', when some entry has a 2xx status the selector
\* returns, with strategy 'first', the result of a 2xx entry whose elapsed time
\* no other 2xx entry undercuts (0 ms included); when none has, it returns the
\* first-available result.
C18_FastestSuccess ==
    \A r \in ReqIds :
        Under(r, "first") =>
            IF Succeeded(PerTarget(r)) # {}
            THEN /\ Chosen(r).strategy = "first"
                 /\ \E i \in Succeeded(PerTarget(r)) :
                       /\ SameResult(Chosen(r), PerTarget(r)[i])
                       /\ \A j \in Succeeded(PerTarget(r)) :
                             Elapsed(r, PerTarget(r)[i].k) <= Elapsed(r, PerTarget(r)[j].k)
            ELSE FirstAvailable(Chosen(r), PerTarget(r))

\* The value of a mock field, or its default when the field is missing.
OrDefault(value, missing, default) == IF value = missing THEN default ELSE value
IsMock(response, mock) ==
    /\ response.strategy = "mock"
    /\ response.status = OrDefault(mock.status, 0, 200)
    /\ response.statusText = OrDefault(mock.statusText, Undefined, "OK")
    /\ response.headers = OrDefault(mock.headers, Undefined, "{}")
    /\ response.body = OrDefault(mock.body, Undefined, "{}")

ReturnsMock(r) ==
    \/ req[r].config.mockResponse.configured /\ IsMock(Chosen(r), req[r].config.mockResponse)
    \/ Chosen(r).strategy = "mock" /\ Chosen(r).body = "Mock response (not configured)"

\* C20: under strategy 'mock' with mockForce false, with or without a mock
\* response configured, the selector returns a mock only when some entry has a
\* 2xx status; when none has and the aggregate has entries, it returns the
\* result of the last entry with strategy 'mock-fallback'.
C20_MockOnlyAfterSuccess ==
    \A r \in ReqIds :
        (Under(r, "mock") /\ req[r].config.mockForce = "false") =>
            /\ ReturnsMock(r) => Succeeded(PerTarget(r)) # {}
            /\ (Succeeded(PerTarget(r)) = {} /\ PerTarget(r) # <<>>) =>
                   /\ Chosen(r).strategy = "mock-fallback"
                   /\ SameResult(Chosen(r), PerTarget(r)[Len(PerTarget(r))])

\* The 503 the mock strategy makes up for an aggregate without entries.
NoTargetResponses(response) ==
    /\ response.strategy = "mock"
    /\ response.status = 503
    /\ response.statusText = "Service Unavailable"
    /\ response.body = "No target responses available"
    /\ response.selectedTarget = Undefined

\* C21: under strategy 'mock', for an aggregate without entries the selector
\* returns the 503 {error: 'No target responses available'} when a mock response
\* is configured and mockForce is false; with mockForce true or not set it
\* returns the configured mock, and without a mock response configured the mock
\* it makes up for that case.
C21_EmptyAggregateUnderMock ==
    \A r \in ReqIds :
        (Under(r, "mock") /\ PerTarget(r) = <<>>) =>
            IF ~req[r].config.mockResponse.configured
            THEN Chosen(r).status = 200 /\ Chosen(r).body = "Mock response (not configured)"
            ELSE IF req[r].config.mockForce = "false"
            THEN NoTargetResponses(Chosen(r))
            ELSE IsMock(Chosen(r), req[r].config.mockResponse)

\* The selector was called with no target result under a mock policy with the
\* force off, and the 503 was sent to the client.
C21_Witness ==
    \E r \in ReqIds :
        /\ Under(r, "mock")
        /\ req[r].targets = <<>>
        /\ req[r].config.mockForce = "false"
        /\ req[r].config.mockResponse = MockFull
        /\ req[r].pc = "done"
        /\ req[r].sent[1].status = 503
        /\ req[r].sent[1].body = "No target responses available"

\* C21 as stated: under strategy 'mock' an aggregate without entries gets the
\* 503 {error: 'No target responses available'}.
C21_Always503 ==
    \A r \in ReqIds :
        (Under(r, "mock") /\ PerTarget(r) = <<>>) => NoTargetResponses(Chosen(r))

\* The response is one response: the result of an entry of the aggregate under
\* a strategy tag, or one the selector made up (a mock or a 503), with a status
\* and a body.
OneResponse(response, aggregate) ==
    \/ /\ \E i \in 1..Len(aggregate) : SameResult(response, aggregate[i])
       /\ response.strategy \in {"fallback", "specific", "first", "mock-fallback"}
    \/ /\ response.selectedTarget = Undefined
       /\ response.targetId = Undefined
       /\ response.status \in {200, 201, 503}
       /\ response.body # Undefined

Enabling(st, reg, path) ==
    {i \in 1..Len(getAllScripts(reg)) :
        LET name == getAllScripts(reg)[i]
        IN  /\ PathMatches(getScriptMetadata(reg, name).pathPattern, path)
            /\ st[name] # NoRow
            /\ st[name].responseConfig.enabled}
\* The policy is the responseConfig of this row.
PolicyOf(config, row) ==
    /\ config.enabled
    /\ config.strategy = row.responseConfig.strategy
    /\ config.selectedTargetId = row.responseConfig.targetId
    /\ config.mockResponse = row.responseConfig.mockResponse
Dispatched(r) == \E t \in 1..Len(req[r].tasks) : req[r].tasks[t].dispatched

\* C23: the step of broadcast that starts the targets' tasks sets the policy
\* of the request, with no target dispatched yet, to the responseConfig of the
\* first script in registry order whose pathPattern matches the path and whose
\* responseConfig is enabled, whatever the targets and their tags, and to none
\* when there is no such script; no later step changes it.
C23_PolicyDecidedOnce ==
    [][\A r \in ReqIds :
          /\ (req[r].pc = "import" /\ req'[r].pc = "fanout") =>
                LET hits == Enabling(store, CurrentRegistry, req[r].path)
                IN  /\ ~Dispatched(r)'
                    /\ IF hits = {} THEN req'[r].config = NoActiveConfig
                       ELSE \E i \in hits :
                               /\ \A j \in hits : i <= j
                               /\ PolicyOf(req'[r].config, store[getAllScripts(CurrentRegistry)[i]])
          /\ req[r].pc \notin {"none", "import"} => req'[r].config = req[r].config
          /\ Dispatched(r)' => req'[r].pc \notin {"none", "import"}]_vars

\* A policy is active that the second script enabled, the first matching the
\* path without enabling one, and a target whose tags exclude the second script
\* has been dispatched.
C23_Witness ==
    \E r \in ReqIds :
        /\ req[r].config.enabled
        /\ Len(scripts) = 2
        /\ ~store[scripts[1].k].responseConfig.enabled
        /\ store[scripts[2].k].responseConfig.enabled
        /\ \E t \in 1..Len(req[r].tasks) :
              /\ req[r].tasks[t].dispatched
              /\ scripts[2].k \notin Range(req[r].tasks[t].matching)

\* The outbound calls made so far: the options fetch was called with.
Sent(r) == {t \in 1..Len(req[r].tasks) : req[r].tasks[t].dispatched}
HeadersOf(r, t) == req[r].tasks[t].options.headers
HasBody(r, t) == req[r].tasks[t].options.body # NoBytes
\* The value the encode step gives Content-Length for the body sent.
Recomputed(r, t) == ByteLength(req[r].tasks[t].options.body)

\* C24: the headers of every outbound call hold no key that is host,
\* connection, keep-alive, transfer-encoding or upgrade in any letter case, and
\* a content-length or content-encoding key only with the value the encode step
\* set for the body sent.
C24_NonForwardableStripped ==
    \A r \in ReqIds :
        \A t \in Sent(r) :
           \A k \in DOMAIN HeadersOf(r, t) :
              /\ Lower(k) \notin {"host", "connection", "keep-alive", "transfer-encoding",
                                   "upgrade"}
              /\ Lower(k) \in {"content-length", "content-encoding"} =>
                    /\ HasBody(r, t)
                    /\ HeadersOf(r, t)[k] = Recomputed(r, t)

\* The inbound request came with content-encoding: gzip.
InboundGzip(r) == req[r].request.headers.base = "hjz"
\* The outbound call is gzip-encoded: compressed bytes under Content-Encoding:
\* gzip.
Gzipped(r, t) ==
    /\ req[r].tasks[t].options.body.encoding = "gzip"
    /\ \E k \in DOMAIN HeadersOf(r, t) :
          Lower(k) = "content-encoding" /\ HeadersOf(r, t)[k] = "gzip"

\* C25: an outbound call is gzip-encoded exactly when the inbound request was
\* gzip-encoded and the call carries a body, whatever headers the scripts of the
\* target returned.
C25_GzipIffInbound ==
    \A r \in ReqIds :
        \A t \in Sent(r) : Gzipped(r, t) <=> (InboundGzip(r) /\ HasBody(r, t))

\* The keys of an outbound call that are content-length in lower case.
LengthKeys(r, t) == {k \in DOMAIN HeadersOf(r, t) : Lower(k) = "content-length"}

Untouched(request) ==
    /\ request.headers.marks = <<>>
    /\ request.params.marks = <<>>
    /\ request.body.marks = <<>>
\* The scripts the task has applied so far.
AppliedBy(task) == {k \in 1..Len(task.lookups) : Applied(task.lookups[k])}

\* C27: at every point of a broadcast the headers, the params and the body of
\* the inbound request are what they were when it was received, and the first
\* script applied for a target is called with them, whatever the scripts
\* applied for other targets did.
C27_InboundNeverMutated ==
    \A r \in ReqIds :
        /\ Untouched(req[r].request)
        /\ \A t \in 1..Len(req[r].tasks) :
              Cardinality(AppliedBy(req[r].tasks[t])) = 1 =>
                 Untouched(req[r].tasks[t].last.given)

\* C28: the functions of every script applied for a target are called with the
\* metadata of that target as second argument, whatever the other tasks of the
\* broadcast are doing.
C28_OwnMetadata ==
    \A r \in ReqIds :
        \A t \in 1..Len(req[r].tasks) :
           req[r].tasks[t].last.name # Undefined =>
              req[r].tasks[t].last.metadata = req[r].targets[t].metadata

\* The tasks of two targets with different metadata are both between two
\* scripts, each having had a script applied.
C28_Witness ==
    \E r \in ReqIds :
        /\ Len(req[r].tasks) = 2
        /\ req[r].targets[1].metadata # req[r].targets[2].metadata
        /\ \A t \in 1..2 :
              /\ req[r].tasks[t].pc = "loop"
              /\ req[r].tasks[t].last.called # {}
              /\ req[r].tasks[t].last.metadata = req[r].targets[t].metadata

\* C29: a request takes the target list of the distributor there is when it
\* is received and keeps it: no configuration refresh changes the list while
\* the request is handled, one task is started per target of that list, and the
\* aggregate is built from those targets and tasks; a request received after a
\* refresh takes the refreshed list.
C29_TargetsAsAtStart ==
    [][\A r \in ReqIds :
          /\ (req[r].pc = "none" /\ req'[r].pc = "import") =>
                req'[r].targets = distributor.targets
          /\ req[r].pc # "none" => req'[r].targets = req[r].targets
          /\ req'[r].pc \in {"fanout", "returned", "done"} /\ req'[r].sent # <<NotInitialized>> =>
                Len(req'[r].tasks) = Len(req'[r].targets)
          /\ Returned(r)' =>
                PerTarget(r)' = Aggregate(<<>>, req'[r].targets, req'[r].tasks, 1)]_vars

\* The two targets of the list the request started with have been dispatched,
\* while a refresh during the broadcast has left the distributor with another
\* list.
C29_Witness ==
    \E r \in ReqIds :
        /\ req[r].pc = "fanout"
        /\ req[r].targets = <<T2, T1>>
        /\ distributor.targets = <<T3, T1>>
        /\ \A t \in 1..2 : req[r].tasks[t].dispatched

\* The request was answered by the guard of the handler, before any broadcast.
Unserved(r) == req[r].sent = <<NotInitialized>>

ChoseFailed(r) ==
    /\ Returned(r)
    /\ Chosen(r).status = 0
    /\ Chosen(r).error # Undefined

\* C31: a request whose selected response is the result of a failed target is
\* answered with that result: status 0 and its error.
C31_FailedResultVerbatim ==
    \A r \in ReqIds :
        req[r].pc = "done" /\ ChoseFailed(r) =>
            /\ Len(req[r].sent) = 1
            /\ req[r].sent[1].status = 0
            /\ req[r].sent[1].error = Chosen(r).error

\* The registry serves the table: each stored script that compiles with its
\* stored source and metadata, and no script that has no row.
Reflects ==
    \A n \in Names :
        /\ (InStore(n) /\ Compiles(store[n].content)) =>
              /\ getScript(CurrentRegistry, n) = store[n].content
              /\ getScriptMetadata(CurrentRegistry, n) =
                    [tags |-> store[n].tags, pathPattern |-> store[n].pathPattern]
        /\ ~InStore(n) =>
              /\ getScript(CurrentRegistry, n) = Undefined
              /\ \A tags \in {<<>>, <<"x">>, <<"y">>} :
                    n \notin Range(getScriptsForTags(CurrentRegistry, tags))

\* C32: once a reload that started after the last write has completed, the
\* registry serves each created or updated script that compiles in its stored
\* version and no deleted script; and with the timer firing, each table the
\* store holds is written over or is served in that way.
C32_ChangeReflected ==
    /\ [](freshDone >= 1 => Reflects)
    /\ \A T \in [Names -> StoreRows] :
          (store = T) ~> (store # T \/ (freshDone >= 1 /\ Reflects))

\* s1 was created, then updated to another source that compiles, then deleted by
\* a write of the other thread, and the poll after it has completed: s1 is gone.
C32_Witness ==
    /\ nmut = 3
    /\ freshDone >= 1
    /\ Quiet
    /\ ~InStore("s1")
    /\ InStore("s2")
    /\ getScript(CurrentRegistry, "s2") = "B"
    /\ getScript(CurrentRegistry, "s1") = Undefined

\* What the target of an outbound call obtains from it (decode): it takes the
\* bytes as gzip when a Content-Encoding header says so, in whatever spelling
\* (header names are case-insensitive on the wire), which fails on bytes that
\* are not, and parses the text as JSON, which gives what JSON.stringify kept.
Decoded(r, t) ==
    LET told == IF \E k \in DOMAIN HeadersOf(r, t) : Lower(k) = "content-encoding"
                THEN "gzip" ELSE "identity"
        bytes == req[r].tasks[t].options.body
    IN  IF told = bytes.encoding
        THEN [ok |-> TRUE, body |-> JsonCopy(bytes.of)]
        ELSE [ok |-> FALSE, body |-> Field(Undefined)]

\* No script of the target changed the body of the request.
BodyUnchanged(r, t) == req[r].tasks[t].request.body = req[r].request.body

\* C33: for a request that came gzip-encoded with a JSON body, the body a target
\* decodes from its outbound call is the body the proxy parsed, whenever no
\* script of that target changed the body.
C33_GzipRoundTrip ==
    \A r \in ReqIds :
        \A t \in Sent(r) :
           (InboundGzip(r) /\ HasBody(r, t) /\ BodyUnchanged(r, t)) =>
               /\ Decoded(r, t).ok
               /\ Decoded(r, t).body = req[r].request.body

\* C34: when a broadcast has returned, the timestamps hold one elapsed time per
\* configured target, whatever the outcome of its call, and the time the
\* selector ranks an entry of the aggregate by is the time recorded under the
\* key of that entry.
C34_ElapsedPerTarget ==
    \A r \in ReqIds :
        Returned(r) =>
            /\ Len(MapKeys(req[r].timestamps)) = Len(req[r].targets)
            /\ \A i \in 1..Len(PerTarget(r)) :
                  /\ MapHas(req[r].timestamps, PerTarget(r)[i].k)
                  /\ TimeOf(req[r].timestamps, PerTarget(r)[i].k) =
                        Elapsed(r, PerTarget(r)[i].k)

\* The request came without a body and no script has given it one.
Absent(body) == body.base \in {Undefined, Null} /\ body.marks = <<>>

\* C35: when a script is applied to a request that has no body, its
\* transformBody is not called, and its transformHeaders and transformParams
\* are called as for any request (each one the script exports, unless an earlier
\* call of the same script never returned).
C35_NoBodyNoBodyTransform ==
    \A r \in ReqIds :
        \A t \in 1..Len(req[r].tasks) :
           LET last == req[r].tasks[t].last
           IN  (last.name # Undefined /\ Absent(last.before.body)) =>
                  /\ 3 \notin last.called
                  /\ \A i \in 1..2 :
                        (/\ Fns[i] \in Exports(getScript(CurrentRegistry, last.name))
                         /\ \A k \in 1..(i - 1) : ~(k \in last.called /\ last.outs[k] = "hang"))
                           => i \in last.called

\* The selector answered with the first-available result: directly (no policy
\* in force) or as the fallback of a strategy.
FellBack(r) == Returned(r) /\ Chosen(r).strategy \in {"default", "fallback"}

\* C36: the first-available result is the result of the first target of the
\* configured list, whatever the nicknames the aggregate is keyed by, and the
\* synthesized 503 when the list is empty.
C36_FirstInConfigurationOrder ==
    \A r \in ReqIds :
        (FellBack(r) \/ (Returned(r) /\ req[r].targets = <<>> /\ ~req[r].config.enabled)) =>
            IF req[r].targets = <<>>
            THEN /\ Chosen(r).status = 503
                 /\ Chosen(r).body = "No responses available"
            ELSE /\ Chosen(r).selectedTarget = Key(req[r].targets[1])
                 /\ Chosen(r).targetId = req[r].targets[1].id
                 /\ SameResult(Chosen(r),
                               [k |-> Key(req[r].targets[1]),
                                v |-> Entry(req[r].targets[1], req[r].tasks[1].settled)])

\* C37: the policy a broadcast hands to the selector carries the mockForce that
\* was saved for the script it comes from: "false" when the script was saved
\* with mockForce=false, "true" when it was saved with mockForce=true.
C37_MockForceCarried ==
    \A r \in ReqIds :
        req[r].pc \notin {"none", "import"} /\ req[r].config.enabled =>
            LET hits == Enabling(store, CurrentRegistry, req[r].path)
            IN  \E i \in hits :
                   /\ \A j \in hits : i <= j
                   /\ req[r].config.mockForce =
                         store[getAllScripts(CurrentRegistry)[i]].responseConfig.mockForce

\* The request has returned under an enabled policy whose strategy the switch
\* of selectResponse does not name.
UnderOther(r) ==
    /\ Returned(r)
    /\ req[r].config.enabled
    /\ req[r].config.strategy \notin {"specific", "mock", "first"}

\* C38: under an enabled policy whose strategy is neither 'specific' nor 'mock'
\* ('all', or a value that is no strategy) the selector does what it does
\* under 'first': with a 2xx result in the aggregate it returns one of the
\* smallest elapsed time, tagged 'first', and without one the first-available
\* result; it never returns the aggregate itself as the response.
C38_OtherStrategiesAsFirst ==
    \A r \in ReqIds :
        UnderOther(r) =>
            IF Succeeded(PerTarget(r)) # {}
            THEN /\ Chosen(r).strategy = "first"
                 /\ \E i \in Succeeded(PerTarget(r)) :
                       /\ SameResult(Chosen(r), PerTarget(r)[i])
                       /\ \A j \in Succeeded(PerTarget(r)) :
                             Elapsed(r, PerTarget(r)[i].k) <= Elapsed(r, PerTarget(r)[j].k)
            ELSE FirstAvailable(Chosen(r), PerTarget(r))

\* The lookups of the task that carry a pattern that is no regular expression.
InvalidAt(task) ==
    {k \in 1..Len(task.lookups) : task.lookups[k].metadata.pathPattern = InvalidPattern}

OwnResults(r) ==
    /\ \A k \in 1..Len(PerTarget(r)) :
          \E t \in 1..Len(req[r].tasks) :
             /\ PerTarget(r)[k].k = Key(req[r].targets[t])
             /\ PerTarget(r)[k].v = Entry(req[r].targets[t], req[r].tasks[t].settled)
    /\ \A k \in 1..Len(req[r].timestamps) :
          /\ \E t \in 1..Len(req[r].tasks) :
                /\ req[r].timestamps[k].k = Key(req[r].targets[t])
                /\ req[r].tasks[t].pc = "settled"
          /\ req[r].timestamps[k].v <= req[r].clock
    /\ \/ \E k \in 1..Len(PerTarget(r)) : SameResult(Chosen(r), PerTarget(r)[k])
       \/ PerTarget(r) = <<>>

\* C40: with two requests in progress at once, in whatever order their
\* handlers' steps are taken, a step of one request changes nothing of the other
\* (its aggregate, timestamps and response included), and what a broadcast
\* returns is made of the results of its own outbound calls.
C40_RequestsIsolated ==
    /\ [](\A r \in PairIds :
             /\ \A k \in 1..Len(req[r].timestamps) :
                   \E t \in 1..Len(req[r].tasks) :
                      /\ req[r].timestamps[k].k = Key(req[r].targets[t])
                      /\ req[r].tasks[t].pc = "settled"
             /\ Returned(r) => OwnResults(r))
    /\ [][\A r \in PairIds :
             req'[r] # req[r] => \A q \in PairIds \ {r} : req'[q] = req[q]]_vars

\* The first broadcast has returned a response of strategy 'first' while the
\* second awaits one of its targets, the other having failed where that of the
\* first answered; then both have their own timestamps.
C40_Witness ==
    /\ req["r1"].pc = "returned"
    /\ Chosen("r1").strategy = "first"
    /\ req["r1"].tasks[1].settled.ok
    /\ req["r2"].pc = "fanout"
    /\ req["r2"].tasks[1].pc = "settled"
    /\ ~req["r2"].tasks[1].settled.ok
    /\ req["r2"].tasks[2].pc = "fetch"
    /\ req["r1"].timestamps # req["r2"].timestamps
====
